---- MODULE Spec2Model ----
(***************************************************************************)
(* Model of the MemoryDatabase class of src/src/database.js: the three     *)
(* tables user_profile, entities and events of one sql.js database, the    *)
(* methods that write and read them, the file image the methods save, the  *)
(* opening of a new or existing file, and the order in which the bodies of *)
(* calls that are not awaited run.                                         *)
(*                                                                         *)
(* Text that the code searches or pattern-matches (keys, values, names,    *)
(* serialized JSON) is a sequence of one-character strings; SQL NULL / JS  *)
(* null is the marker NullText for such text and NullName for enumerated   *)
(* names (category, type, status), which are plain strings.                *)
(***************************************************************************)
EXTENDS Integers, Sequences, FiniteSets, TLC

(***************************************************************************)
(* Bounds of the model.                                                    *)
(***************************************************************************)
MaxNow == 1
MaxProfileRows == 2
MaxEntities == 2
MaxEvents == 2
MaxRelated == 3
MaxRows == 3

(***************************************************************************)
(* Null markers and text helpers.                                          *)
(***************************************************************************)
NullText == <<"NULL">>
NullName == "NULL"

DigitChars == <<"0", "1", "2", "3", "4", "5", "6", "7", "8", "9">>

\* String(n) for a non-negative integer below 100, as template literals and
\* JSON.stringify write it.
NumberToText(n) ==
    IF n < 10 THEN <<DigitChars[n + 1]>>
    ELSE <<DigitChars[(n \div 10) + 1], DigitChars[(n % 10) + 1]>>

\* s.includes(p) / s LIKE '%p%' for pattern text without wildcards.
Includes(s, p) ==
    \E i \in 0..(Len(s) - Len(p)) :
        \A j \in 1..Len(p) : s[i + j] = p[j]

RECURSIVE JoinIds(_)
\* Array.prototype.join(',') over the numbers of an array, as JSON.stringify
\* writes the elements of an array of integers: no whitespace.
JoinIds(ids) ==
    IF Len(ids) = 0 THEN <<>>
    ELSE IF Len(ids) = 1 THEN NumberToText(ids[1])
    ELSE NumberToText(ids[1]) \o <<",">> \o JoinIds(Tail(ids))

\* JSON.stringify of an array of integers.
JSONStringifyIds(ids) == <<"[">> \o JoinIds(ids) \o <<"]">>

RECURSIVE ToNumber(_)
\* Number(s) and parseInt(s) of a text of decimal digits.
ToNumber(s) ==
    IF Len(s) = 0 THEN 0
    ELSE ToNumber(SubSeq(s, 1, Len(s) - 1)) * 10
         + (CHOOSE n \in 0..9 : DigitChars[n + 1] = s[Len(s)])

\* The position of the first ch in s, or 0.
IndexOf(s, ch) ==
    LET hits == {i \in DOMAIN s : s[i] = ch}
    IN  IF hits = {} THEN 0 ELSE CHOOSE i \in hits : \A j \in hits : i <= j

RECURSIVE SplitOn(_, _)
\* The pieces of s between the occurrences of ch.
SplitOn(s, ch) ==
    LET i == IndexOf(s, ch)
    IN  IF i = 0 THEN <<s>>
        ELSE <<SubSeq(s, 1, i - 1)>> \o SplitOn(SubSeq(s, i + 1, Len(s)), ch)

\* JSON.parse of the text of an array of integers: the numbers between the
\* brackets, split at the commas.
JSONParseIds(text) ==
    LET inner == SubSeq(text, 2, Len(text) - 1)
        pieces == SplitOn(inner, ",")
    IN  IF Len(inner) = 0 THEN <<>>
        ELSE [i \in DOMAIN pieces |-> ToNumber(pieces[i])]

(***************************************************************************)
(* State.                                                                  *)
(***************************************************************************)
VARIABLES
    profile,    \* rows of user_profile, in insertion (rowid) order
    entities,   \* rows of entities, in id order
    events,     \* rows of events, in id order
    now,        \* the clock CURRENT_TIMESTAMP and new Date() read
    file,       \* the image last written to dbPath by _saveDatabase
    lastOp,     \* the last method call: its name, the instance's userId, its arguments
    ret,        \* what that call returned (or the error it threw)
    schema,     \* the tables of this.db and whether each has the deleted column
    calls,      \* the calls made without awaiting them, in invocation order
    initWaiters,    \* continuations waiting for _initPromise, in registration order
    microtasks      \* the microtask queue: continuations ready to run, first in first out

vars == <<profile, entities, events, now, file, lastOp, ret, schema, calls, initWaiters,
          microtasks>>

\* What the synchronous methods leave alone: the schema and the continuations
\* of calls that are not awaited.
runtime == <<schema, calls, initWaiters, microtasks>>

\* The four tables of _createTables.
TableNames == {"user_profile", "entities", "events", "entity_relations"}

\* A table of a database is missing, or exists without or with the column
\* deleted.
ColumnStates == {"missing", "without_deleted", "with_deleted"}

\* _createTables: CREATE TABLE IF NOT EXISTS with deleted INTEGER DEFAULT 0,
\* on a database without tables.
CreatedTables == [t \in TableNames |-> "with_deleted"]

\* this.db = null
NoDatabase == [t \in TableNames |-> "no_database"]

\* The image of a database with the schema sch.
ExportOf(p, e, v, sch) == [user_profile |-> p, entities |-> e, events |-> v, schema |-> sch]

\* this.db.export(): the whole in-memory database.
Export(p, e, v) == ExportOf(p, e, v, schema)

\* There is no file at dbPath.
NoFile == [missing |-> TRUE]

\* Column defaults of _createTables.
DefaultConfidence == 10     \* confidence REAL DEFAULT 1.0, in tenths
DefaultImportance == 5      \* importance REAL DEFAULT 0.5, in tenths

\* A new database: _createTables and then _saveDatabase.
Init ==
    /\ profile = <<>>
    /\ entities = <<>>
    /\ events = <<>>
    /\ now = 0
    /\ schema = CreatedTables
    /\ file = Export(<<>>, <<>>, <<>>)
    /\ lastOp = [op |-> "constructor", user |-> NullName]
    /\ ret = [none |-> TRUE]
    /\ calls = <<>>
    /\ initWaiters = <<>>
    /\ microtasks = <<>>

\* Time passes between two calls.
Tick ==
    /\ now < MaxNow
    /\ now' = now + 1
    /\ UNCHANGED <<profile, entities, events, file, lastOp, ret>>
    /\ UNCHANGED runtime

(***************************************************************************)
(* user_profile.                                                           *)
(***************************************************************************)

\* ProfileRowsOf with user_id left out of the WHERE clause.
ProfileRowsOf_AnyUser(u, k) == {i \in DOMAIN profile : profile[i].key = k}

\* The positions of the rows of (user, key): at most one, by the primary key.
ProfileRowsOf(u, k) ==
    {i \in DOMAIN profile : profile[i].user_id = u /\ profile[i].key = k}

\* Coalesce with the excluded category taken even when it is NULL.
Coalesce_AlwaysNew(new, old) == new

\* COALESCE(excluded.category, category)
Coalesce(new, old) == IF new # NullName THEN new ELSE old

\* INSERT ... ON CONFLICT(user_id, key) DO UPDATE SET value, category, updated_at
UpsertProfile(u, k, v, c) ==
    IF ProfileRowsOf(u, k) = {}
    THEN Append(profile, [user_id |-> u, key |-> k, value |-> v, category |-> c,
                          updated_at |-> now, confidence |-> DefaultConfidence,
                          deleted |-> 0])
    ELSE [i \in DOMAIN profile |->
            IF i \in ProfileRowsOf(u, k)
            THEN [profile[i] EXCEPT !.value = v,
                                    !.category = Coalesce(c, profile[i].category),
                                    !.updated_at = now]
            ELSE profile[i]]

\* OldRow with the key left out of the WHERE clause.
OldRow_AnyKey(u, k) == {i \in DOMAIN profile : profile[i].user_id = u}

\* SELECT value FROM user_profile WHERE user_id = ? AND key = ?
OldRow(u, k) == ProfileRowsOf(u, k)

UpdateProfile(u, k, v, c) ==
    /\ ProfileRowsOf(u, k) = {} => Len(profile) < MaxProfileRows
    /\ profile' = UpsertProfile(u, k, v, c)
    /\ file' = Export(profile', entities, events)
    /\ lastOp' = [op |-> "updateProfile", user |-> u, key |-> k, value |-> v,
                  category |-> c]
    /\ ret' = [updated |-> TRUE,
               had_previous_value |-> OldRow(u, k) # {},
               previous_value |->
                   IF OldRow(u, k) # {}
                   THEN profile[CHOOSE i \in OldRow(u, k) : TRUE].value
                   ELSE NullText]
    /\ UNCHANGED <<entities, events, now>>
    /\ UNCHANGED runtime

\* UPDATE user_profile SET deleted = 1, updated_at = CURRENT_TIMESTAMP
\* WHERE user_id = ? AND key = ?
MarkProfileDeleted(u, k) ==
    [i \in DOMAIN profile |->
        IF i \in ProfileRowsOf(u, k)
        THEN [profile[i] EXCEPT !.deleted = 1, !.updated_at = now]
        ELSE profile[i]]

\* CountLiveProfile with "AND deleted = 0" left out of the WHERE clause.
CountLiveProfile_WithDeleted(u, k) == Cardinality(ProfileRowsOf(u, k))

\* SELECT COUNT(*) FROM user_profile WHERE user_id = ? AND key = ? AND deleted = 0
CountLiveProfile(u, k) ==
    Cardinality({i \in ProfileRowsOf(u, k) : profile[i].deleted = 0})

DeleteProfile(u, k) ==
    /\ profile' = MarkProfileDeleted(u, k)
    /\ file' = Export(profile', entities, events)
    /\ lastOp' = [op |-> "deleteProfile", user |-> u, key |-> k]
    /\ ret' = [deleted |-> CountLiveProfile(u, k) > 0,
               changes |-> CountLiveProfile(u, k)]
    /\ UNCHANGED <<entities, events, now>>
    /\ UNCHANGED runtime

\* QueryProfileIn with "AND deleted = 0" left out of the WHERE clause.
QueryProfileIn_WithDeleted(p, u, keys, category) ==
    SelectSeq(p, LAMBDA r :
        /\ r.user_id = u
        /\ (keys # {} => r.key \in keys)
        /\ (category # NullName => r.category = category))

\* The rows queryProfile(keys, category) returns, in table order; keys is a
\* set of keys, or {} for "no key filter" (keys null or empty).
QueryProfileIn(p, u, keys, category) ==
    SelectSeq(p, LAMBDA r :
        /\ r.user_id = u
        /\ r.deleted = 0
        /\ (keys # {} => r.key \in keys)
        /\ (category # NullName => r.category = category))

QueryProfile(u, keys, category) == QueryProfileIn(profile, u, keys, category)

(***************************************************************************)
(* Keyword search over user_profile.                                       *)
(***************************************************************************)

\* String.prototype.toLowerCase on the letters of the model's alphabet.
LowerChar(ch) ==
    CASE ch = "A" -> "a"
      [] ch = "B" -> "b"
      [] OTHER -> ch

ToLowerCase(s) == [i \in DOMAIN s |-> LowerChar(s[i])]

RECURSIVE TrimStart(_)
TrimStart(s) == IF Len(s) > 0 /\ s[1] = " " THEN TrimStart(Tail(s)) ELSE s

RECURSIVE TrimEnd(_)
TrimEnd(s) ==
    IF Len(s) > 0 /\ s[Len(s)] = " " THEN TrimEnd(SubSeq(s, 1, Len(s) - 1)) ELSE s

\* String.prototype.trim
Trim(s) == TrimEnd(TrimStart(s))

\* new RegExp(kw) matches s at offset i (0-based): every pattern character is
\* a literal, except "." which matches any character.
RegExpMatchesAt(s, kw, i) ==
    /\ i + Len(kw) <= Len(s)
    /\ \A j \in 1..Len(kw) : kw[j] = "." \/ s[i + j] = kw[j]

RECURSIVE CountFrom(_, _, _)
\* The number of matches s.match(new RegExp(kw, 'g')) finds from offset i on:
\* leftmost first, not overlapping.
CountFrom(s, kw, i) ==
    IF i + Len(kw) > Len(s) THEN 0
    ELSE IF RegExpMatchesAt(s, kw, i) THEN 1 + CountFrom(s, kw, i + Len(kw))
    ELSE CountFrom(s, kw, i + 1)

\* (s.match(new RegExp(kw, 'g')) || []).length for a non-empty kw
Occurrences(s, kw) == CountFrom(s, kw, 0)

\* `${profile.key || ''} ${profile.value || ''}`.toLowerCase()
SearchText(row) == ToLowerCase(row.key \o <<" ">> \o row.value)

\* One pass of keywords.forEach over a profile row: the score the keyword adds.
ProfileKeywordScore(row, keyword) ==
    LET kw == Trim(ToLowerCase(keyword))
        occurrences == Occurrences(SearchText(row), kw)
        keyScore == IF Includes(ToLowerCase(row.key), kw) THEN occurrences * 2 ELSE 0
        valueScore == IF Includes(ToLowerCase(row.value), kw) THEN occurrences * 1 ELSE 0
    IN  keyScore + valueScore

\* Whether keywords.forEach pushes the keyword to matchedKeywords.
ProfileKeywordMatches(row, keyword) ==
    LET kw == Trim(ToLowerCase(keyword))
    IN  Len(kw) > 0 /\ Includes(SearchText(row), kw)

RECURSIVE SumSeq(_)
SumSeq(s) == IF Len(s) = 0 THEN 0 ELSE s[1] + SumSeq(Tail(s))

\* matchedKeywords after the forEach: the matching keywords in argument order.
MatchedKeywords(row, keywords) ==
    SelectSeq(keywords, LAMBDA keyword : ProfileKeywordMatches(row, keyword))

\* totalScore after the forEach.
ProfileTotalScore(row, keywords) ==
    LET matched == MatchedKeywords(row, keywords)
    IN  SumSeq([i \in DOMAIN matched |-> ProfileKeywordScore(row, matched[i])])

\* matchMode === 'all' ? matched.length === keywords.length : matched.length > 0
IsMatch(matched, keywords, matchMode) ==
    IF matchMode = "all" THEN Len(matched) = Len(keywords) ELSE Len(matched) > 0

RECURSIVE InsertByScore(_, _)
\* Insert x into a sequence sorted by descending relevance_score, after every
\* element whose score is at least x's.
InsertByScore(sorted, x) ==
    IF Len(sorted) = 0 THEN <<x>>
    ELSE IF sorted[1].relevance_score >= x.relevance_score
         THEN <<sorted[1]>> \o InsertByScore(Tail(sorted), x)
         ELSE <<x>> \o sorted

RECURSIVE SortByScore(_)
\* .sort((a, b) => b.relevance_score - a.relevance_score): stable, descending.
SortByScore(s) ==
    IF Len(s) = 0 THEN <<>>
    ELSE InsertByScore(SortByScore(SubSeq(s, 1, Len(s) - 1)), s[Len(s)])

\* Slice with one element more than the limit.
Slice_OneMore(s, limit) == SubSeq(s, 1, IF limit + 1 < Len(s) THEN limit + 1 ELSE Len(s))

\* .slice(0, limit)
Slice(s, limit) == SubSeq(s, 1, IF limit < Len(s) THEN limit ELSE Len(s))

\* searchProfileByKeywords over the table p.
SearchProfileIn(p, u, keywords, category, matchMode, limit) ==
    LET allProfiles == QueryProfileIn(p, u, {}, category)
        scored == [i \in DOMAIN allProfiles |->
                     [key |-> allProfiles[i].key,
                      value |-> allProfiles[i].value,
                      category |-> allProfiles[i].category,
                      updated_at |-> allProfiles[i].updated_at,
                      confidence |-> allProfiles[i].confidence,
                      relevance_score |-> ProfileTotalScore(allProfiles[i], keywords),
                      matched_keywords |-> MatchedKeywords(allProfiles[i], keywords)]]
        results == SelectSeq(scored, LAMBDA r :
                       IsMatch(r.matched_keywords, keywords, matchMode))
    IN  Slice(SortByScore(results), limit)

SearchProfileByKeywords(u, keywords, category, matchMode, limit) ==
    SearchProfileIn(profile, u, keywords, category, matchMode, limit)

(***************************************************************************)
(* entities.                                                               *)
(***************************************************************************)

\* A JS object with string values is a sequence of <<key, value>> pairs of
\* texts; NullObject is JS null.
NullObject == << <<NullText, NullText>> >>

RECURSIVE JoinPairs(_)
JoinPairs(obj) ==
    LET pair == <<"\"">> \o obj[1][1] \o <<"\"", ":", "\"">> \o obj[1][2] \o <<"\"">>
    IN  IF Len(obj) = 0 THEN <<>>
        ELSE IF Len(obj) = 1 THEN pair
        ELSE pair \o <<",">> \o JoinPairs(Tail(obj))

\* JSON.stringify of an object whose values are strings without quotes or
\* backslashes.
JSONStringifyObject(obj) == <<"{">> \o JoinPairs(obj) \o <<"}">>

\* attributes ? JSON.stringify(attributes) : null
AttributesJson(attributes) ==
    IF attributes = NullObject THEN NullText ELSE JSONStringifyObject(attributes)

RECURSIVE StringLiterals(_)
\* The string literals of a JSON text, in order: each runs from a quote to
\* the next one.
StringLiterals(text) ==
    LET open == IndexOf(text, "\"")
        rest == SubSeq(text, open + 1, Len(text))
        close == IndexOf(rest, "\"")
    IN  IF open = 0 THEN <<>>
        ELSE <<SubSeq(rest, 1, close - 1)>>
             \o StringLiterals(SubSeq(rest, close + 1, Len(rest)))

\* JSON.parse of the text of an object with string values: its literals are
\* key, value, key, value, ...
JSONParseObject(text) ==
    LET literals == StringLiterals(text)
    IN  [i \in 1..(Len(literals) \div 2) |-> <<literals[2 * i - 1], literals[2 * i]>>]

\* ParsedObject with the column left null whatever it holds.
ParsedObject_AlwaysNull(column) == NullObject

\* if (obj.attributes) { obj.attributes = JSON.parse(obj.attributes) }: a NULL
\* column stays null.
ParsedObject(column) ==
    IF column = NullText THEN NullObject ELSE JSONParseObject(column)


\* InsertEntity with the id taken from the number of rows not deleted.
InsertEntity_ReusedId(u, entityType, name, attributes) ==
    Append(entities,
           [id |-> Cardinality({i \in DOMAIN entities : entities[i].deleted = 0}) + 1,
            user_id |-> u, entity_type |-> entityType, name |-> name,
            attributes |-> AttributesJson(attributes),
            created_at |-> now, updated_at |-> now,
            status |-> "active", deleted |-> 0])

\* INSERT INTO entities (...): id is INTEGER PRIMARY KEY AUTOINCREMENT and no
\* row is ever removed, so the new id is one more than the number of rows.
InsertEntity(u, entityType, name, attributes) ==
    Append(entities, [id |-> Len(entities) + 1, user_id |-> u,
                      entity_type |-> entityType, name |-> name,
                      attributes |-> AttributesJson(attributes),
                      created_at |-> now, updated_at |-> now,
                      status |-> "active", deleted |-> 0])

CreateEntity(u, entityType, name, attributes) ==
    /\ Len(entities) < MaxEntities
    /\ entities' = InsertEntity(u, entityType, name, attributes)
    /\ file' = Export(profile, entities', events)
    /\ lastOp' = [op |-> "createEntity", user |-> u, entity_type |-> entityType,
                  name |-> name, attributes |-> attributes]
    /\ ret' = [id |-> Len(entities) + 1]
    /\ UNCHANGED <<profile, events, now>>
    /\ UNCHANGED runtime

\* EntityRowsOf with user_id left out of the WHERE clause.
EntityRowsOf_AnyUser(u, id) == {i \in DOMAIN entities : entities[i].id = id}

\* The positions of the rows WHERE user_id = ? AND id = ?
EntityRowsOf(u, id) ==
    {i \in DOMAIN entities : entities[i].user_id = u /\ entities[i].id = id}

\* PatchEntity with the id left out of the WHERE clause.
PatchEntity_EveryEntity(u, id, name, attributes, status) ==
    [i \in DOMAIN entities |->
        IF entities[i].user_id = u
        THEN [entities[i] EXCEPT
                !.name = IF name # NullText THEN name ELSE @,
                !.attributes = IF attributes # NullObject
                               THEN JSONStringifyObject(attributes) ELSE @,
                !.status = IF status # NullName THEN status ELSE @,
                !.updated_at = now]
        ELSE entities[i]]

\* UPDATE entities SET <the supplied fields>, updated_at = CURRENT_TIMESTAMP
\* WHERE user_id = ? AND id = ?
PatchEntity(u, id, name, attributes, status) ==
    [i \in DOMAIN entities |->
        IF i \in EntityRowsOf(u, id)
        THEN [entities[i] EXCEPT
                !.name = IF name # NullText THEN name ELSE @,
                !.attributes = IF attributes # NullObject
                               THEN JSONStringifyObject(attributes) ELSE @,
                !.status = IF status # NullName THEN status ELSE @,
                !.updated_at = now]
        ELSE entities[i]]

\* UpdateEntity without the early return for an empty list of updates.
UpdateEntity_NoEarlyReturn(u, id, name, attributes, status) ==
    /\ lastOp' = [op |-> "updateEntity", user |-> u, id |-> id, name |-> name,
                  attributes |-> attributes, status |-> status]
    /\ entities' = PatchEntity(u, id, name, attributes, status)
    /\ file' = Export(profile, entities', events)
    /\ ret' = [updated |-> Cardinality(EntityRowsOf(u, id)) > 0,
               changes |-> Cardinality(EntityRowsOf(u, id))]
    /\ UNCHANGED <<profile, events, now>>
    /\ UNCHANGED runtime

UpdateEntity(u, id, name, attributes, status) ==
    /\ lastOp' = [op |-> "updateEntity", user |-> u, id |-> id, name |-> name,
                  attributes |-> attributes, status |-> status]
    /\ IF name = NullText /\ attributes = NullObject /\ status = NullName
       THEN /\ ret' = [updated |-> FALSE, message |-> "No fields to update"]
            /\ UNCHANGED <<entities, file>>
       ELSE /\ entities' = PatchEntity(u, id, name, attributes, status)
            /\ file' = Export(profile, entities', events)
            /\ ret' = [updated |-> Cardinality(EntityRowsOf(u, id)) > 0,
                       changes |-> Cardinality(EntityRowsOf(u, id))]
    /\ UNCHANGED <<profile, events, now>>
    /\ UNCHANGED runtime

\* UPDATE entities SET deleted = 1, updated_at = CURRENT_TIMESTAMP
\* WHERE user_id = ? AND id = ?
MarkEntityDeleted(u, id) ==
    [i \in DOMAIN entities |->
        IF i \in EntityRowsOf(u, id)
        THEN [entities[i] EXCEPT !.deleted = 1, !.updated_at = now]
        ELSE entities[i]]

\* SELECT COUNT(*) FROM entities WHERE user_id = ? AND id = ? AND deleted = 0
CountLiveEntity(u, id) ==
    Cardinality({i \in EntityRowsOf(u, id) : entities[i].deleted = 0})

DeleteEntity(u, id) ==
    /\ entities' = MarkEntityDeleted(u, id)
    /\ file' = Export(profile, entities', events)
    /\ lastOp' = [op |-> "deleteEntity", user |-> u, id |-> id]
    /\ ret' = [deleted |-> CountLiveEntity(u, id) > 0,
               changes |-> CountLiveEntity(u, id)]
    /\ UNCHANGED <<profile, events, now>>
    /\ UNCHANGED runtime

RECURSIVE InsertNewestFirst(_, _, _)
\* Insert position x into a sequence of positions sorted by descending key,
\* after the positions whose key is as large.
InsertNewestFirst(sorted, x, keys) ==
    IF Len(sorted) = 0 THEN <<x>>
    ELSE IF keys[sorted[1]] >= keys[x]
         THEN <<sorted[1]>> \o InsertNewestFirst(Tail(sorted), x, keys)
         ELSE <<x>> \o sorted

RECURSIVE SortedPositions(_, _)
\* The positions 1..n ordered by descending key; equal keys stay in order.
SortedPositions(n, keys) ==
    IF n = 0 THEN <<>>
    ELSE InsertNewestFirst(SortedPositions(n - 1, keys), n, keys)

\* ORDER BY <column> DESC, keys being the column of the rows s; rows of equal
\* value stay in table order.
OrderByDesc(s, keys) ==
    LET pos == SortedPositions(Len(s), keys)
    IN  [i \in DOMAIN s |-> s[pos[i]]]

\* ListedEntity with the status filter left out.
ListedEntity_AnyStatus(r, u, entityType, status) ==
    /\ r.user_id = u
    /\ r.deleted = 0
    /\ (entityType # NullName => r.entity_type = entityType)

\* The WHERE clause of listEntities.
ListedEntity(r, u, entityType, status) ==
    /\ r.user_id = u
    /\ r.deleted = 0
    /\ (entityType # NullName => r.entity_type = entityType)
    /\ ((status # NullName /\ status # "all") => r.status = status)

\* listEntities(entityType, status) over the table e; the returned objects
\* carry the selected columns (user_id and deleted are not selected), with
\* attributes parsed from the stored JSON text.
ListEntitiesIn(e, u, entityType, status) ==
    LET found == SelectSeq(e, LAMBDA r : ListedEntity(r, u, entityType, status))
        rows == OrderByDesc(found, [i \in DOMAIN found |-> found[i].created_at])
    IN  [i \in DOMAIN rows |->
            [id |-> rows[i].id, entity_type |-> rows[i].entity_type,
             name |-> rows[i].name, attributes |-> ParsedObject(rows[i].attributes),
             created_at |-> rows[i].created_at, updated_at |-> rows[i].updated_at,
             status |-> rows[i].status]]

ListEntities(u, entityType, status) == ListEntitiesIn(entities, u, entityType, status)

\* The ids of the entities a listing holds.
IdsOf(rows) == {rows[i].id : i \in DOMAIN rows}

(***************************************************************************)
(* events.                                                                 *)
(***************************************************************************)

\* timestamp = null: the event is stamped with the current instant.
NoTimestamp == -1

\* relatedEntityIds = null.  A JS array of ids is a sequence of integers.
NullIds == <<-1>>

\* No timeRange argument.
NoRange == [start |-> -1, end |-> -1]

\* relatedEntityIds ? JSON.stringify(relatedEntityIds) : null
RelatedEntityIdsJson(relatedEntityIds) ==
    IF relatedEntityIds = NullIds THEN NullText ELSE JSONStringifyIds(relatedEntityIds)

\* metadata ? JSON.stringify(metadata) : null
MetadataJson(metadata) ==
    IF metadata = NullObject THEN NullText ELSE JSONStringifyObject(metadata)

\* timestamp || new Date().toISOString()
EventTimestamp(timestamp) == IF timestamp = NoTimestamp THEN now ELSE timestamp

\* INSERT INTO events (...): the values are bound as given.
InsertEvent(u, eventType, description, relatedEntityIds, metadata, timestamp, importance) ==
    Append(events, [id |-> Len(events) + 1, user_id |-> u,
                    event_type |-> eventType, description |-> description,
                    timestamp |-> EventTimestamp(timestamp),
                    related_entity_ids |-> RelatedEntityIdsJson(relatedEntityIds),
                    metadata |-> MetadataJson(metadata),
                    importance |-> importance, deleted |-> 0])

AddEvent(u, eventType, description, relatedEntityIds, metadata, timestamp, importance) ==
    /\ Len(events) < MaxEvents
    /\ events' = InsertEvent(u, eventType, description, relatedEntityIds, metadata,
                             timestamp, importance)
    /\ file' = Export(profile, entities, events')
    /\ lastOp' = [op |-> "addEvent", user |-> u, event_type |-> eventType,
                  description |-> description,
                  related_entity_ids |-> relatedEntityIds, metadata |-> metadata,
                  timestamp |-> timestamp, importance |-> importance]
    /\ ret' = [id |-> Len(events) + 1]
    /\ UNCHANGED <<profile, entities, now>>
    /\ UNCHANGED runtime

\* The positions of the rows WHERE user_id = ? AND id = ?
EventRowsOf(u, id) ==
    {i \in DOMAIN events : events[i].user_id = u /\ events[i].id = id}

\* UPDATE events SET deleted = 1 WHERE user_id = ? AND id = ?
MarkEventDeleted(u, id) ==
    [i \in DOMAIN events |->
        IF i \in EventRowsOf(u, id)
        THEN [events[i] EXCEPT !.deleted = 1]
        ELSE events[i]]

\* SELECT COUNT(*) FROM events WHERE user_id = ? AND id = ? AND deleted = 0
CountLiveEvent(u, id) ==
    Cardinality({i \in EventRowsOf(u, id) : events[i].deleted = 0})

DeleteEvent(u, id) ==
    /\ events' = MarkEventDeleted(u, id)
    /\ file' = Export(profile, entities, events')
    /\ lastOp' = [op |-> "deleteEvent", user |-> u, id |-> id]
    /\ ret' = [deleted |-> CountLiveEvent(u, id) > 0,
               changes |-> CountLiveEvent(u, id)]
    /\ UNCHANGED <<profile, entities, now>>
    /\ UNCHANGED runtime

\* if (obj.related_entity_ids) { ... = JSON.parse(obj.related_entity_ids) }
ParsedIds(column) ==
    IF column = NullText THEN NullIds ELSE JSONParseIds(column)

\* The objects the event queries return: the selected columns (user_id and
\* deleted are not selected), with the JSON columns parsed.
EventObjects(rows) ==
    [i \in DOMAIN rows |->
        [id |-> rows[i].id, event_type |-> rows[i].event_type,
         description |-> rows[i].description,
         related_entity_ids |-> ParsedIds(rows[i].related_entity_ids),
         metadata |-> ParsedObject(rows[i].metadata), timestamp |-> rows[i].timestamp,
         importance |-> rows[i].importance]]

\* ORDER BY timestamp DESC
NewestFirst(rows) == OrderByDesc(rows, [i \in DOMAIN rows |-> rows[i].timestamp])

(***************************************************************************)
(* Dates.  An instant is a whole number of days since 1970-01-01T00:00Z:   *)
(* the clock of the model ticks in days, and the process runs in UTC, so   *)
(* local midnight is UTC midnight.  The timestamp column holds the ISO     *)
(* text of an instant; the rows of the model keep the instant and the      *)
(* comparisons SQLite makes on the column are made on the text.            *)
(***************************************************************************)

\* The day number of the civil date y-m-d (proleptic Gregorian calendar), as
\* the Date constructor computes it from year, month and day.
DaysFromCivil(y, m, d) ==
    LET yy == IF m <= 2 THEN y - 1 ELSE y
        era == yy \div 400
        yoe == yy - era * 400
        mp == IF m > 2 THEN m - 3 ELSE m + 9
        doy == (153 * mp + 2) \div 5 + d - 1
        doe == yoe * 365 + yoe \div 4 - yoe \div 100 + doy
    IN  era * 146097 + doe - 719468

\* The civil date of a day number, as toISOString computes it.
CivilFromDays(z) ==
    LET zz == z + 719468
        era == zz \div 146097
        doe == zz - era * 146097
        yoe == (doe - doe \div 1460 + doe \div 36524 - doe \div 146096) \div 365
        doy == doe - (365 * yoe + yoe \div 4 - yoe \div 100)
        mp == (5 * doy + 2) \div 153
        d == doy - (153 * mp + 2) \div 5 + 1
        m == IF mp < 10 THEN mp + 3 ELSE mp - 9
    IN  [year |-> IF m <= 2 THEN yoe + era * 400 + 1 ELSE yoe + era * 400,
         month |-> m, day |-> d]

\* new Date(year, monthIndex, day): a year from 0 to 99 means 1900 + year, and
\* a month index outside 0..11 carries into the year.
NewDate(year, monthIndex, day) ==
    LET fullYear == IF year >= 0 /\ year <= 99 THEN 1900 + year ELSE year
    IN  DaysFromCivil(fullYear + monthIndex \div 12, (monthIndex % 12) + 1, day)

\* n written with two digits.
TwoDigits(n) == <<DigitChars[(n \div 10) + 1], DigitChars[(n % 10) + 1]>>

\* Date.prototype.toISOString for an instant of the years 0000 to 9999.
ToISOString(t) ==
    LET c == CivilFromDays(t)
    IN  TwoDigits(c.year \div 100) \o TwoDigits(c.year % 100) \o <<"-">>
        \o TwoDigits(c.month) \o <<"-">> \o TwoDigits(c.day)
        \o <<"T", "0", "0", ":", "0", "0", ":", "0", "0", ".", "0", "0", "0", "Z">>

\* The byte of a character of an ISO timestamp.
CharCode(ch) ==
    CASE ch = "-" -> 45
      [] ch = "." -> 46
      [] ch = ":" -> 58
      [] ch = "T" -> 84
      [] ch = "Z" -> 90
      [] OTHER -> 48 + (CHOOSE n \in 0..9 : DigitChars[n + 1] = ch)

RECURSIVE TextLeq(_, _)
\* a <= b in SQLite's BINARY collation of TEXT: byte by byte, a prefix first.
TextLeq(a, b) ==
    IF Len(a) = 0 THEN TRUE
    ELSE IF Len(b) = 0 THEN FALSE
    ELSE IF a[1] # b[1] THEN CharCode(a[1]) < CharCode(b[1])
    ELSE TextLeq(Tail(a), Tail(b))

\* The time range names _parseTimeRange knows.
LastWeek == <<"l", "a", "s", "t", "_", "w", "e", "e", "k">>
LastMonth == <<"l", "a", "s", "t", "_", "m", "o", "n", "t", "h">>
LastYear == <<"l", "a", "s", "t", "_", "y", "e", "a", "r">>

\* \d
IsDigit(ch) == \E n \in 0..9 : DigitChars[n + 1] = ch

\* timeRange.match(/^\d{4}-\d{2}$/)
MatchesYearMonth(s) ==
    /\ Len(s) = 7
    /\ \A i \in {1, 2, 3, 4, 6, 7} : IsDigit(s[i])
    /\ s[5] = "-"

\* timeRange.match(/^\d{4}$/)
MatchesYear(s) == Len(s) = 4 /\ \A i \in 1..4 : IsDigit(s[i])

\* throw new Error(`Unsupported time range format: ${timeRange}`)
UnsupportedFormat == [error |-> "Unsupported time range format"]

\* _parseTimeRange(timeRange) at the clock reading clock: the instants start
\* and end, or the error it throws.  n * 24 * 60 * 60 * 1000 ms are n days.
ParseTimeRangeAt(timeRange, clock) ==
    IF timeRange = LastWeek THEN [start |-> clock - 7, end |-> clock]
    ELSE IF timeRange = LastMonth THEN [start |-> clock - 30, end |-> clock]
    ELSE IF timeRange = LastYear THEN [start |-> clock - 365, end |-> clock]
    ELSE IF MatchesYearMonth(timeRange)
    THEN LET year == ToNumber(SubSeq(timeRange, 1, 4))
             month == ToNumber(SubSeq(timeRange, 6, 7))
         IN  [start |-> NewDate(year, month - 1, 1), end |-> NewDate(year, month, 1)]
    ELSE IF MatchesYear(timeRange)
    THEN LET year == ToNumber(timeRange)
         IN  [start |-> NewDate(year, 0, 1), end |-> NewDate(year + 1, 0, 1)]
    ELSE UnsupportedFormat

ParseTimeRange(timeRange) == ParseTimeRangeAt(timeRange, now)

\* A direct call of _parseTimeRange.
CallParseTimeRange(u, timeRange) ==
    /\ lastOp' = [op |-> "_parseTimeRange", user |-> u, timeRange |-> timeRange]
    /\ ret' = ParseTimeRange(timeRange)
    /\ UNCHANGED <<profile, entities, events, now, file>>
    /\ UNCHANGED runtime

\* if (timeRange) { const { start, end } = this._parseTimeRange(timeRange) }:
\* no range for null and for the empty string.
ResolveTimeRange(timeRange) ==
    IF timeRange = NullText \/ Len(timeRange) = 0 THEN NoRange
    ELSE ParseTimeRange(timeRange)

\* timestamp BETWEEN ? AND ? with start.toISOString() and end.toISOString()
InTimeRange(r, range) ==
    range # NoRange =>
        /\ TextLeq(ToISOString(range.start), ToISOString(r.timestamp))
        /\ TextLeq(ToISOString(r.timestamp), ToISOString(range.end))

\* The WHERE clause of the legacy path of searchEvents.
SearchedEvent(r, u, query, eventType, range) ==
    /\ r.user_id = u
    /\ r.deleted = 0
    /\ ((query # NullText /\ Len(query) > 0) =>
            Includes(ToLowerCase(r.description), ToLowerCase(query)))
    /\ (eventType # NullName => r.event_type = eventType)
    /\ InTimeRange(r, range)

\* searchEvents(query, null, eventType, timeRange, limit) over the table v.
SearchEventsIn(v, u, query, eventType, range, limit) ==
    EventObjects(Slice(
        NewestFirst(SelectSeq(v, LAMBDA r : SearchedEvent(r, u, query, eventType, range))),
        limit))

SearchEvents(u, query, eventType, range, limit) ==
    SearchEventsIn(events, u, query, eventType, range, limit)

\* The three LIKE patterns of queryEntityTimeline, without their leading and
\* trailing %: `[${entityId},`, `, ${entityId}]` and `[${entityId}]`.
TimelinePatterns(entityId) ==
    { <<"[">> \o NumberToText(entityId) \o <<",">>,
      <<",", " ">> \o NumberToText(entityId) \o <<"]">>,
      <<"[">> \o NumberToText(entityId) \o <<"]">> }

\* OnTimeline with "AND deleted = 0" left out of the WHERE clause.
OnTimeline_WithDeleted(r, u, entityId) ==
    /\ r.user_id = u
    /\ r.related_entity_ids # NullText
    /\ \E pattern \in TimelinePatterns(entityId) :
           Includes(r.related_entity_ids, pattern)

\* The WHERE clause of queryEntityTimeline; NULL LIKE ? is not true.
OnTimeline(r, u, entityId) ==
    /\ r.user_id = u
    /\ r.deleted = 0
    /\ r.related_entity_ids # NullText
    /\ \E pattern \in TimelinePatterns(entityId) :
           Includes(r.related_entity_ids, pattern)

\* queryEntityTimeline(entityId, limit) over the table v.
QueryEntityTimelineIn(v, u, entityId, limit) ==
    EventObjects(Slice(
        NewestFirst(SelectSeq(v, LAMBDA r : OnTimeline(r, u, entityId))),
        limit))

QueryEntityTimeline(u, entityId, limit) ==
    QueryEntityTimelineIn(events, u, entityId, limit)

(***************************************************************************)
(* Keyword search over entities and events.                                *)
(***************************************************************************)

\* The score one searched field adds for the trimmed lower-case keyword kw:
\* weight per regular-expression match when the field includes kw, else 0.
\* A null (or empty) field is skipped.
FieldScore(text, kw, weight) ==
    IF text # NullText /\ Len(text) > 0 /\ Includes(ToLowerCase(text), kw)
    THEN Occurrences(ToLowerCase(text), kw) * weight
    ELSE 0

\* searchFields.includes('all') || searchFields.includes(field)
ShouldSearch(searchFields, field) == "all" \in searchFields \/ field \in searchFields

\* nameScore + attrsScore of one keyword; the attributes searched are
\* JSON.stringify(entity.attributes) of the parsed attributes.
EntityKeywordScore(entity, keyword, searchFields) ==
    LET kw == Trim(ToLowerCase(keyword))
        nameScore == IF ShouldSearch(searchFields, "name")
                     THEN FieldScore(entity.name, kw, 3) ELSE 0
        attrsScore == IF ShouldSearch(searchFields, "attributes")
                      THEN FieldScore(AttributesJson(entity.attributes), kw, 1) ELSE 0
    IN  IF Len(kw) = 0 THEN 0 ELSE nameScore + attrsScore

EntityMatchedKeywords(entity, keywords, searchFields) ==
    SelectSeq(keywords, LAMBDA keyword :
        EntityKeywordScore(entity, keyword, searchFields) > 0)

EntityTotalScore(entity, keywords, searchFields) ==
    SumSeq([i \in DOMAIN keywords |-> EntityKeywordScore(entity, keywords[i], searchFields)])

\* keywords.some(kw => text.toLowerCase().includes(kw.toLowerCase()))
SomeKeywordIn(text, keywords) ==
    /\ text # NullText
    /\ Len(text) > 0
    /\ \E i \in DOMAIN keywords : Includes(ToLowerCase(text), ToLowerCase(keywords[i]))

\* searchEntitiesByKeywords over the table e.
SearchEntitiesIn(e, u, keywords, entityType, searchFields, matchMode, limit) ==
    LET allEntities == ListEntitiesIn(e, u, entityType, "active")
        scored == [i \in DOMAIN allEntities |->
                     [id |-> allEntities[i].id,
                      entity_type |-> allEntities[i].entity_type,
                      name |-> allEntities[i].name,
                      attributes |-> allEntities[i].attributes,
                      created_at |-> allEntities[i].created_at,
                      updated_at |-> allEntities[i].updated_at,
                      status |-> allEntities[i].status,
                      relevance_score |->
                          EntityTotalScore(allEntities[i], keywords, searchFields),
                      matched_keywords |->
                          EntityMatchedKeywords(allEntities[i], keywords, searchFields),
                      matched_fields |->
                          [name |-> ShouldSearch(searchFields, "name")
                                    /\ SomeKeywordIn(allEntities[i].name, keywords),
                           attributes |-> ShouldSearch(searchFields, "attributes")
                                    /\ SomeKeywordIn(AttributesJson(allEntities[i].attributes),
                                                     keywords)]]]
        results == SelectSeq(scored, LAMBDA r :
                       IsMatch(r.matched_keywords, keywords, matchMode))
    IN  Slice(SortByScore(results), limit)

SearchEntitiesByKeywords(u, keywords, entityType, searchFields, matchMode, limit) ==
    SearchEntitiesIn(entities, u, keywords, entityType, searchFields, matchMode, limit)

\* descScore + metaScore of one keyword.
EventKeywordScore(event, keyword) ==
    LET kw == Trim(ToLowerCase(keyword))
    IN  IF Len(kw) = 0 THEN 0
        ELSE FieldScore(event.description, kw, 2)
             + FieldScore(MetadataJson(event.metadata), kw, 1)

\* The WHERE clause of searchEventsByKeywords.
KeywordSearchedEvent(r, u, eventType, range) ==
    /\ r.user_id = u
    /\ r.deleted = 0
    /\ (eventType # NullName => r.event_type = eventType)
    /\ InTimeRange(r, range)

\* searchEventsByKeywords over the table v, for a non-empty keyword list.
SearchEventsByKeywordsIn(v, u, keywords, eventType, range, limit) ==
    LET allEvents == EventObjects(NewestFirst(
                         SelectSeq(v, LAMBDA r : KeywordSearchedEvent(r, u, eventType, range))))
        scored == [i \in DOMAIN allEvents |->
                     [id |-> allEvents[i].id,
                      event_type |-> allEvents[i].event_type,
                      description |-> allEvents[i].description,
                      related_entity_ids |-> allEvents[i].related_entity_ids,
                      metadata |-> allEvents[i].metadata,
                      timestamp |-> allEvents[i].timestamp,
                      importance |-> allEvents[i].importance,
                      relevance_score |->
                          SumSeq([j \in DOMAIN keywords |->
                                     EventKeywordScore(allEvents[i], keywords[j])]),
                      matched_keywords |->
                          SelectSeq(keywords, LAMBDA keyword :
                              EventKeywordScore(allEvents[i], keyword) > 0)]]
        results == SelectSeq(scored, LAMBDA r : Len(r.matched_keywords) > 0)
    IN  IF Len(keywords) = 0 THEN Slice(allEvents, limit)
        ELSE Slice(SortByScore(results), limit)

SearchEventsByKeywords(u, keywords, eventType, range, limit) ==
    SearchEventsByKeywordsIn(events, u, keywords, eventType, range, limit)

\* keywords = null
NullKeywords == <<NullText>>

\* searchEvents(query, keywords, eventType, timeRange, limit): the keyword
\* search when keywords is a non-empty array, else the legacy query; the error
\* of _parseTimeRange is thrown on.
SearchEventsCall(u, query, keywords, eventType, timeRange, limit) ==
    LET range == ResolveTimeRange(timeRange)
    IN  IF range = UnsupportedFormat THEN UnsupportedFormat
        ELSE IF keywords # NullKeywords /\ Len(keywords) > 0
        THEN SearchEventsByKeywordsIn(events, u, keywords, eventType, range, limit)
        ELSE SearchEventsIn(events, u, query, eventType, range, limit)

(***************************************************************************)
(* Opening a database: the constructor starts _initialize, which creates a *)
(* new database or loads the file at dbPath.                               *)
(***************************************************************************)

\* _ensureTablesUpToDate: for each of the four tables, PRAGMA table_info; a
\* table without rows of column information (a missing table) is skipped, a
\* table without the column deleted gets it by ALTER TABLE.
EnsureTablesUpToDate(sch) ==
    [t \in TableNames |-> IF sch[t] = "missing" THEN "missing" ELSE "with_deleted"]

\* ALTER TABLE ... ADD COLUMN deleted INTEGER DEFAULT 0: the rows that have no
\* such column read 0.
WithDeletedColumn(rows) ==
    [i \in DOMAIN rows |->
        IF "deleted" \in DOMAIN rows[i] THEN rows[i]
        ELSE [f \in DOMAIN rows[i] \cup {"deleted"} |->
                 IF f = "deleted" THEN 0 ELSE rows[i][f]]]

\* Load with the events of the image left out.
Load_WithoutEvents(image) ==
    [user_profile |-> WithDeletedColumn(image.user_profile),
     entities |-> WithDeletedColumn(image.entities),
     events |-> <<>>,
     schema |-> EnsureTablesUpToDate(image.schema)]

\* new this.SQL.Database(buffer) and _ensureTablesUpToDate(): the database a
\* store holds after loading an image.
Load(image) ==
    [user_profile |-> WithDeletedColumn(image.user_profile),
     entities |-> WithDeletedColumn(image.entities),
     events |-> WithDeletedColumn(image.events),
     schema |-> EnsureTablesUpToDate(image.schema)]

\* A row of user_profile written before the table had the column deleted.
LegacyProfileRow ==
    [user_id |-> "alice", key |-> <<"a">>, value |-> <<"a">>, category |-> NullName,
     updated_at |-> 0, confidence |-> DefaultConfidence]

\* The files that can be at dbPath when the store is constructed: every
\* combination of missing tables and tables without and with the column
\* deleted; a user_profile table without the column holds a row.
ExistingFiles ==
    {ExportOf(IF sch["user_profile"] = "without_deleted" THEN <<LegacyProfileRow>> ELSE <<>>,
              <<>>, <<>>, sch) : sch \in [TableNames -> ColumnStates]}

\* The state the constructor leaves: this.db = null, _initialize started and
\* waiting for initSqlJs(), and any file or none at dbPath.
InitOpening ==
    /\ profile = <<>>
    /\ entities = <<>>
    /\ events = <<>>
    /\ now = 0
    /\ schema = NoDatabase
    /\ file \in {NoFile} \cup ExistingFiles
    /\ lastOp = [op |-> "constructor", user |-> NullName]
    /\ ret = [none |-> TRUE]
    /\ calls = <<>>
    /\ initWaiters = <<>>
    /\ microtasks = <<>>

\* The rest of _initialize, after initSqlJs() has resolved: without a file a
\* new database gets its tables and is saved; a file is loaded, brought up to
\* date, and saved if a column was added.  Then _initPromise is resolved,
\* which makes the continuations waiting for it ready, in registration order.
Initialize(u) ==
    /\ schema = NoDatabase
    /\ IF file = NoFile
       THEN /\ schema' = CreatedTables
            /\ profile' = <<>>
            /\ entities' = <<>>
            /\ events' = <<>>
            /\ file' = ExportOf(<<>>, <<>>, <<>>, CreatedTables)
       ELSE /\ schema' = Load(file).schema
            /\ profile' = Load(file).user_profile
            /\ entities' = Load(file).entities
            /\ events' = Load(file).events
            /\ file' = IF Load(file).schema # file.schema
                       THEN ExportOf(profile', entities', events', schema')
                       ELSE file
    /\ microtasks' = microtasks \o initWaiters
    /\ initWaiters' = <<>>
    /\ lastOp' = [op |-> "_initialize", user |-> u]
    /\ ret' = [none |-> TRUE]
    /\ UNCHANGED <<now, calls>>

(***************************************************************************)
(* A write of the file that fails: writeFileSync throws in _saveDatabase,  *)
(* after db.run has changed the in-memory database; the file stays as it   *)
(* was and the error is thrown on to the caller.                           *)
(***************************************************************************)

\* The error of writeFileSync, which no method catches.
WriteFailed == [error |-> "writeFileSync failed"]

UpdateProfileWriteFails(u, k, v, c) ==
    /\ ProfileRowsOf(u, k) = {} => Len(profile) < MaxProfileRows
    /\ profile' = UpsertProfile(u, k, v, c)
    /\ lastOp' = [op |-> "updateProfile", user |-> u, key |-> k, value |-> v,
                  category |-> c]
    /\ ret' = WriteFailed
    /\ UNCHANGED <<entities, events, now, file>>
    /\ UNCHANGED runtime

CreateEntityWriteFails(u, entityType, name, attributes) ==
    /\ Len(entities) < MaxEntities
    /\ entities' = InsertEntity(u, entityType, name, attributes)
    /\ lastOp' = [op |-> "createEntity", user |-> u, entity_type |-> entityType,
                  name |-> name, attributes |-> attributes]
    /\ ret' = WriteFailed
    /\ UNCHANGED <<profile, events, now, file>>
    /\ UNCHANGED runtime

DeleteEntityWriteFails(u, id) ==
    /\ entities' = MarkEntityDeleted(u, id)
    /\ lastOp' = [op |-> "deleteEntity", user |-> u, id |-> id]
    /\ ret' = WriteFailed
    /\ UNCHANGED <<profile, events, now, file>>
    /\ UNCHANGED runtime

(***************************************************************************)
(* Calls that are not awaited.  Every method is an async function that     *)
(* starts with `await this._ensureInitialized()`, itself an async function *)
(* that awaits _initPromise: the call registers a continuation on          *)
(* _initPromise (or, that promise being resolved, puts it in the microtask *)
(* queue); when that continuation runs, _ensureInitialized returns, which  *)
(* puts the continuation of the method (its body) at the end of the queue. *)
(* The body of updateProfile and queryProfile is synchronous.  The body of *)
(* searchProfileByKeywords calls `await this.queryProfile(null, category)` *)
(* and so goes through the queue twice more before the table is read, and  *)
(* once more before the rows are scored.                                   *)
(***************************************************************************)

\* The most calls made without awaiting.
MaxCalls == 3

\* The keywords of the searchProfileByKeywords calls.
AsyncKeywords == << <<"a">> >>

\* The calls a caller makes.
AsyncCalls ==
    {[op |-> "updateProfile", key |-> <<"a">>, value |-> <<"a">>],
     [op |-> "queryProfile", key |-> NullText, value |-> NullText],
     [op |-> "searchProfileByKeywords", key |-> NullText, value |-> NullText]}

\* The calls that have changed the database so far.
AppliedMutations ==
    {i \in DOMAIN calls : calls[i].op = "updateProfile" /\ calls[i].done}

\* The caller's synchronous code makes a call without awaiting it.  It runs
\* while no continuation of an earlier call has run since the queue was last
\* empty: microtasks do not interrupt synchronous code.
Invoke(u, c) ==
    /\ Len(calls) < MaxCalls
    /\ \A n \in DOMAIN microtasks : microtasks[n].stage = "ensure"
    /\ calls' = Append(calls, [op |-> c.op, user |-> u, key |-> c.key, value |-> c.value,
                               done |-> FALSE, saw |-> {}, result |-> <<>>])
    /\ IF schema = NoDatabase
       THEN /\ initWaiters' = Append(initWaiters, [call |-> Len(calls) + 1, stage |-> "ensure"])
            /\ UNCHANGED microtasks
       ELSE /\ microtasks' = Append(microtasks, [call |-> Len(calls) + 1, stage |-> "ensure"])
            /\ UNCHANGED initWaiters
    /\ UNCHANGED <<profile, entities, events, now, file, lastOp, ret, schema>>

\* The keys of the rows a query returned.
ReturnedKeys(rows) == [i \in DOMAIN rows |-> rows[i].key]

\* The event loop runs the first continuation of the microtask queue.
RunMicrotask ==
    /\ Len(microtasks) > 0
    /\ LET t == Head(microtasks)
           c == calls[t.call]
           later(stage) == Append(Tail(microtasks), [call |-> t.call, stage |-> stage])
           finished(rows) == [calls EXCEPT ![t.call].done = TRUE,
                                          ![t.call].saw = AppliedMutations,
                                          ![t.call].result = ReturnedKeys(rows)]
       IN  CASE t.stage = "ensure" ->
                   \* _ensureInitialized returns: the method continues later.
                   /\ microtasks' = later("body")
                   /\ UNCHANGED <<profile, file, lastOp, ret, calls>>
             [] t.stage = "body" /\ c.op = "updateProfile" ->
                   /\ profile' = UpsertProfile(c.user, c.key, c.value, NullName)
                   /\ file' = Export(profile', entities, events)
                   /\ lastOp' = [op |-> "updateProfile", user |-> c.user, key |-> c.key,
                                 value |-> c.value, category |-> NullName]
                   /\ ret' = [updated |-> TRUE,
                              had_previous_value |-> OldRow(c.user, c.key) # {},
                              previous_value |->
                                  IF OldRow(c.user, c.key) # {}
                                  THEN profile[CHOOSE i \in OldRow(c.user, c.key) : TRUE].value
                                  ELSE NullText]
                   /\ calls' = finished(<<>>)
                   /\ microtasks' = Tail(microtasks)
             [] t.stage = "body" /\ c.op = "queryProfile" ->
                   /\ calls' = finished(QueryProfile(c.user, {}, NullName))
                   /\ microtasks' = Tail(microtasks)
                   /\ UNCHANGED <<profile, file, lastOp, ret>>
             [] t.stage = "body" /\ c.op = "searchProfileByKeywords" ->
                   \* await this.queryProfile(null, category): the inner call
                   \* awaits _ensureInitialized in its turn.
                   /\ microtasks' = later("inner_ensure")
                   /\ UNCHANGED <<profile, file, lastOp, ret, calls>>
             [] t.stage = "inner_ensure" ->
                   /\ microtasks' = later("inner_body")
                   /\ UNCHANGED <<profile, file, lastOp, ret, calls>>
             [] t.stage = "inner_body" ->
                   \* queryProfile reads the table; the rows it returns are
                   \* scored when the search continues.
                   /\ calls' = [calls EXCEPT
                                   ![t.call].saw = AppliedMutations,
                                   ![t.call].result =
                                       ReturnedKeys(SearchProfileByKeywords(
                                           c.user, AsyncKeywords, NullName, "any", 20))]
                   /\ microtasks' = later("rest")
                   /\ UNCHANGED <<profile, file, lastOp, ret>>
             [] t.stage = "rest" ->
                   /\ calls' = [calls EXCEPT ![t.call].done = TRUE]
                   /\ microtasks' = Tail(microtasks)
                   /\ UNCHANGED <<profile, file, lastOp, ret>>
    /\ UNCHANGED <<entities, events, now, schema, initWaiters>>

(***************************************************************************)
(* Arguments the calls are made with.                                      *)
(***************************************************************************)
Users == {"alice", "bob"}
Keys == {<<"a">>, <<"b", "a">>}
Values == {<<"a">>, <<"A", "b">>}
Categories == {NullName, "basic_info", "habits"}

\* utils.js: the types isValidEntityType and isValidEventType accept.
ValidEntityTypes == {"pet", "property", "vehicle", "person"}
ValidEventTypes == {"purchase", "illness", "maintenance", "activity", "milestone", "other"}

EntityTypeArgs == {"pet", "robot"}
NameArgs == {NullText, <<"a", "b">>}
AttributeArgs == {NullObject, << <<<<"b">>, <<"a">>>> >>}
StatusArgs == {NullName, "active", "inactive"}

EventTypeArgs == {"illness", "party"}
ImportanceArgs == {5, 15}
DescriptionArgs == {<<"a", " ", "b">>}
EntityIdArgs == {1, 2, 12}

\* The arrays of distinct entity ids of at most MaxRelated elements.
IdArrays ==
    {ids \in UNION {[1..n -> EntityIdArgs] : n \in 0..MaxRelated} :
        \A i, j \in DOMAIN ids : i # j => ids[i] # ids[j]}

\* The name, attributes and status of an updateEntity call: none of them,
\* each of them alone, and all three.
PatchArgs ==
    {<<NullText, NullObject, NullName>>,
     <<<<"a", "b">>, NullObject, NullName>>,
     <<NullText, << <<<<"b">>, <<"a">>>> >>, NullName>>,
     <<NullText, NullObject, "inactive">>,
     <<<<"a", "b">>, << <<<<"b">>, <<"a">>>> >>, "inactive">>}

\* Event timestamps: none given, the first instants of 2024-02, 2024-03 and
\* 2024-04, and one inside 2024-02.
TimestampArgs ==
    {NoTimestamp, DaysFromCivil(2024, 2, 1), DaysFromCivil(2024, 2, 15),
     DaysFromCivil(2024, 3, 1), DaysFromCivil(2024, 4, 1)}

\* Time ranges of every recognized form.
RecognizedTimeRanges ==
    {LastWeek, LastMonth, LastYear, <<"2", "0", "2", "4", "-", "0", "2">>, <<"2", "0", "2", "4", "-", "1", "2">>, <<"2", "0", "2", "4">>, <<"1", "9", "9", "9">>}

\* Time range arguments: the recognized ones, a month 13, a year below 100,
\* and texts of no recognized form.
TimeRangeArgs ==
    RecognizedTimeRanges
        \cup {<<"2", "0", "2", "4", "-", "1", "3">>, <<"0", "0", "9", "9">>, <<"2", "0", "2", "4", "-", "2">>, <<"y", "e", "s", "t", "e", "r", "d", "a", "y">>, <<"l", "a", "s", "t", "_", "w", "e", "e", "k", " ">>}

\* Keys and values of attributes the keyword search is run on: one letter, and
\* texts with spaces.
SearchKeys == {<<"a">>, <<"a", " ", "b", " ", "a">>}
SearchValues == {<<"a">>, <<"b", "c">>}

\* Objects with one and with two members (JS null is NullObject, {} is <<>>).
OneMember == << <<<<"k">>, <<"a", "A">>>> >>
TwoMembers == << <<<<"k">>, <<"a">>>>, <<<<"b">>, <<>>>> >>

\* The name and attributes of the createEntity calls of the searched store.
SearchEntityArgs ==
    {<<<<"a", ".", "b", "a", "a", "b">>, NullObject>>,
     <<<<"a", ".", "b", "a", "a", "b">>, <<>>>>,
     <<<<"b">>, OneMember>>}

\* The description, relatedEntityIds and metadata of its addEvent calls.
SearchEventArgs ==
    {<<<<"a", " ", "b">>, NullIds, NullObject>>,
     <<<<"a", "a">>, <<1, 12>>, OneMember>>,
     <<<<"a", " ", "b">>, <<>>, <<>>>>}

KeywordLists == { << <<"a">> >>, << <<"B">>, <<" ", "a">> >>, << <<"a", ".", "b">> >> }
MatchModes == {"any", "all"}
Limits == {1, 20}

(***************************************************************************)
(* Specifications.                                                         *)
(***************************************************************************)

\* One store instance of user alice working on attributes.
NextProfile ==
    \/ Tick
    \/ \E k \in Keys, v \in Values, c \in Categories : UpdateProfile("alice", k, v, c)
    \/ \E k \in Keys : DeleteProfile("alice", k)

SpecProfile == Init /\ [][NextProfile]_vars

\* One store instance of user alice working on entities.
NextEntities ==
    \/ Tick
    \/ \E t \in EntityTypeArgs, n \in NameArgs, a \in AttributeArgs :
           CreateEntity("alice", t, n, a)
    \/ \E id \in 1..MaxEntities, n \in NameArgs, a \in AttributeArgs, st \in StatusArgs :
           UpdateEntity("alice", id, n, a, st)
    \/ \E id \in 1..MaxEntities : DeleteEntity("alice", id)

SpecEntities == Init /\ [][NextEntities]_vars

\* One store instance of user alice working on events.
NextEvents ==
    \/ \E t \in EventTypeArgs, d \in DescriptionArgs, ids \in IdArrays \cup {NullIds},
          imp \in ImportanceArgs :
           AddEvent("alice", t, d, ids, NullObject, NoTimestamp, imp)
    \/ \E id \in 1..MaxEvents : DeleteEvent("alice", id)

SpecEvents == Init /\ [][NextEvents]_vars

\* One store instance of user alice adding events with and without a
\* timestamp of their own, and resolving time ranges.
NextTime ==
    \/ Tick
    \/ \E ts \in TimestampArgs :
           AddEvent("alice", "illness", <<"a", " ", "b">>, NullIds, NullObject, ts, 5)
    \/ \E id \in 1..MaxEvents : DeleteEvent("alice", id)
    \/ \E tr \in TimeRangeArgs : CallParseTimeRange("alice", tr)

SpecTime == Init /\ [][NextTime]_vars

\* One store instance of user alice creating entities without a name and
\* attributes at the first reading of the clock, patching them then and
\* later, and deleting the first of them.
NextPatch ==
    \/ Tick
    \/ /\ now = 0
       /\ CreateEntity("alice", "pet", NullText, NullObject)
    \/ \E id \in 1..MaxEntities, args \in PatchArgs :
           UpdateEntity("alice", id, args[1], args[2], args[3])
    \/ DeleteEntity("alice", 1)

SpecPatch == Init /\ [][NextPatch]_vars

\* Store instances of both users creating entities of two types, changing
\* their status and deleting them, within one reading of the clock.
NextList ==
    \/ \E u \in Users, t \in {"pet", "person"} : CreateEntity(u, t, <<"a", "b">>, NullObject)
    \/ \E u \in Users, id \in 1..MaxEntities, st \in {"active", "inactive"} :
           UpdateEntity(u, id, NullText, NullObject, st)
    \/ \E u \in Users, id \in 1..MaxEntities : DeleteEntity(u, id)

SpecList == Init /\ [][NextList]_vars

\* A store of user alice is constructed with any file or none at dbPath and
\* finishes opening.
NextOpen == Initialize("alice")

SpecOpen == InitOpening /\ [][NextOpen]_vars

\* A store of user alice is constructed where no file is, and a caller makes
\* calls without awaiting them, before and after _initialize finishes, while
\* the event loop runs the continuations.
InitAsync == InitOpening /\ file = NoFile

NextAsync ==
    \/ \E c \in AsyncCalls : Invoke("alice", c)
    \/ Initialize("alice")
    \/ RunMicrotask

SpecAsync == InitAsync /\ [][NextAsync]_vars

\* One store instance of user alice whose writes of the file succeed or fail.
NextWriteFailure ==
    \/ \E v \in Values : UpdateProfile("alice", <<"a">>, v, NullName)
    \/ \E v \in Values : UpdateProfileWriteFails("alice", <<"a">>, v, NullName)
    \/ CreateEntity("alice", "pet", <<"a", "b">>, NullObject)
    \/ CreateEntityWriteFails("alice", "pet", <<"a", "b">>, NullObject)
    \/ \E id \in 1..MaxEntities : DeleteEntity("alice", id)
    \/ \E id \in 1..MaxEntities : DeleteEntityWriteFails("alice", id)

SpecWriteFailure == Init /\ [][NextWriteFailure]_vars

\* The number of rows in the three tables.
TotalRows == Len(profile) + Len(entities) + Len(events)

\* One store instance of user alice writing the attributes, entities and
\* events its keyword searches and listings read, and replacing the
\* attributes of entities; at most MaxRows rows are written.
NextSearch ==
    \/ \E k \in SearchKeys, v \in SearchValues :
           /\ (ProfileRowsOf("alice", k) = {} => TotalRows < MaxRows)
           /\ UpdateProfile("alice", k, v, NullName)
    \/ \E args \in SearchEntityArgs :
           /\ TotalRows < MaxRows
           /\ CreateEntity("alice", "pet", args[1], args[2])
    \/ \E id \in 1..MaxEntities : UpdateEntity("alice", id, NullText, TwoMembers, NullName)
    \/ \E args \in SearchEventArgs :
           /\ TotalRows < MaxRows
           /\ AddEvent("alice", "illness", args[1], args[2], args[3], NoTimestamp, 5)

SpecSearch == Init /\ [][NextSearch]_vars

\* One store instance of user alice writing entities and events with JSON
\* columns and replacing the attributes of entities.
NextRoundTrip ==
    \/ \E args \in SearchEntityArgs :
           /\ TotalRows < MaxRows
           /\ CreateEntity("alice", "pet", args[1], args[2])
    \/ \E id \in 1..MaxEntities : UpdateEntity("alice", id, NullText, TwoMembers, NullName)
    \/ \E args \in SearchEventArgs :
           /\ TotalRows < MaxRows
           /\ AddEvent("alice", "illness", args[1], args[2], args[3], NoTimestamp, 5)

SpecRoundTrip == Init /\ [][NextRoundTrip]_vars

\* Store instances of both users, opened one after the other on the same
\* database, working on all three tables within one reading of the clock; at
\* most MaxRows rows are written.
Next ==
    \/ \E u \in Users :
           /\ (ProfileRowsOf(u, <<"a">>) = {} => TotalRows < MaxRows)
           /\ UpdateProfile(u, <<"a">>, <<"A", "b">>, NullName)
    \/ \E u \in Users : DeleteProfile(u, <<"a">>)
    \/ \E u \in Users :
           /\ TotalRows < MaxRows
           /\ CreateEntity(u, "pet", <<"a", "b">>, NullObject)
    \/ \E u \in Users, id \in 1..MaxEntities :
           UpdateEntity(u, id, NullText, NullObject, "inactive")
    \/ \E u \in Users, id \in 1..MaxEntities : DeleteEntity(u, id)
    \/ \E u \in Users :
           /\ TotalRows < MaxRows
           /\ AddEvent(u, "illness", <<"a", " ", "b">>, <<1>>, NullObject, NoTimestamp, 5)
    \/ \E u \in Users, id \in 1..MaxEvents : DeleteEvent(u, id)

Spec == Init /\ [][Next]_vars

(***************************************************************************)
(* Properties.                                                             *)
(***************************************************************************)

\* queryEntityTimeline(entityId, limit = 10)
DefaultTimelineLimit == 10

\* C1: right after addEvent stored an event, queryEntityTimeline(id) (default
\* limit, no more events than that) returns the event if and only if id is an
\* element of the relatedEntityIds array the event was created with, whatever
\* its position in the array.
C1_TimelineIffMember ==
    lastOp.op = "addEvent" =>
        \A id \in EntityIdArgs :
            (ret.id \in IdsOf(QueryEntityTimeline(lastOp.user, id, DefaultTimelineLimit)))
            <=> /\ lastOp.related_entity_ids # NullIds
                /\ \E i \in DOMAIN lastOp.related_entity_ids :
                       lastOp.related_entity_ids[i] = id

\* Entity id is in the user's listing for status 'all' and not in the one
\* for status 'active'.
ListedOnlyInAll(e, u, id) ==
    /\ id \notin IdsOf(ListEntitiesIn(e, u, NullName, "active"))
    /\ id \in IdsOf(ListEntitiesIn(e, u, NullName, "all"))

\* C2: once deleteEntity(id) was called on an entity of the user,
\* listEntities(status='active') does not include the entity and
\* listEntities(status='all') includes it, and every later step that leaves
\* the entity's status as it is keeps both so.
C2_DeletedEntityListing ==
    [][\A u \in Users, id \in 1..MaxEntities :
          /\ (DeleteEntity(u, id) /\ EntityRowsOf(u, id) # {})
                 => ListedOnlyInAll(entities', u, id)
          /\ (/\ ListedOnlyInAll(entities, u, id)
              /\ Len(entities') >= id
              /\ entities'[id].status = entities[id].status)
                 => ListedOnlyInAll(entities', u, id)]_vars

\* C3: deleteEntity(id) on an existing entity of the user sets its status to
\* 'inactive' and leaves its deleted flag as it was.
C3_DeleteEntitySetsInactive ==
    [][\A u \in Users, id \in 1..MaxEntities :
          DeleteEntity(u, id) =>
              \A i \in EntityRowsOf(u, id) :
                  /\ entities'[i].status = "inactive"
                  /\ entities'[i].deleted = entities[i].deleted]_vars

\* C4: right after updateProfile(k, v), in whatever state it was called,
\* queryProfile(keys=[k]) returns exactly one row, with key k and value v.
C4_UpdateThenQuery ==
    lastOp.op = "updateProfile" =>
        LET rows == QueryProfile(lastOp.user, {lastOp.key}, NullName)
        IN  /\ Len(rows) = 1
            /\ rows[1].key = lastOp.key
            /\ rows[1].value = lastOp.value

\* C5: updateProfile(k, v) called when the row of k is soft-deleted or absent
\* returns had_previous_value = false and previous_value = null.
C5_NoPreviousValueOfDeleted ==
    [][\A u \in Users, k \in Keys, v \in Values, c \in Categories :
          (UpdateProfile(u, k, v, c) /\ CountLiveProfile(u, k) = 0) =>
              /\ ret'.had_previous_value = FALSE
              /\ ret'.previous_value = NullText]_vars

\* C6: updateProfile(k, v1) on a key that has no row returns
\* had_previous_value = false and previous_value = null, and an
\* updateProfile(k, v2) that directly follows such a first call returns
\* had_previous_value = true and previous_value = v1.
C6_FirstAndSecondUpdate ==
    [][\A u \in Users, k \in Keys, v \in Values, c \in Categories :
          UpdateProfile(u, k, v, c) =>
              /\ ProfileRowsOf(u, k) = {} =>
                     /\ ret'.had_previous_value = FALSE
                     /\ ret'.previous_value = NullText
              /\ (/\ lastOp.op = "updateProfile"
                  /\ lastOp.user = u
                  /\ lastOp.key = k
                  /\ ret.had_previous_value = FALSE) =>
                     /\ ret'.had_previous_value = TRUE
                     /\ ret'.previous_value = lastOp.value]_vars

\* A second updateProfile of the only key ever written, never deleted, has
\* returned the other value as the previous one.
C6_Witness ==
    /\ lastOp.op = "updateProfile"
    /\ Len(profile) = 1
    /\ profile[1].deleted = 0
    /\ ret.had_previous_value = TRUE
    /\ ret.previous_value = <<"a">>
    /\ lastOp.value = <<"A", "b">>

\* The keys of the rows a profile query or search returned.
KeysOf(rows) == {rows[i].key : i \in DOMAIN rows}

\* C7: right after deleteProfile(k) on a key that updateProfile had written,
\* queryProfile(keys=[k]) returns nothing, and neither queryProfile without a
\* key filter nor searchProfileByKeywords, for any keywords, returns key k.
C7_DeletedAttributeHidden ==
    (lastOp.op = "deleteProfile" /\ ProfileRowsOf(lastOp.user, lastOp.key) # {}) =>
        /\ QueryProfile(lastOp.user, {lastOp.key}, NullName) = <<>>
        /\ \A c \in Categories :
               lastOp.key \notin KeysOf(QueryProfile(lastOp.user, {}, c))
        /\ \A kws \in KeywordLists, c \in Categories, m \in MatchModes, n \in Limits :
               lastOp.key \notin KeysOf(SearchProfileByKeywords(lastOp.user, kws, c, m, n))

\* deleteProfile has just soft-deleted a written key while another attribute,
\* which a keyword search finds, is still live.
C7_Witness ==
    /\ lastOp.op = "deleteProfile"
    /\ ret.deleted = TRUE
    /\ \E i \in ProfileRowsOf(lastOp.user, lastOp.key) : profile[i].deleted = 1
    /\ \E kws \in KeywordLists :
           SearchProfileByKeywords(lastOp.user, kws, NullName, "any", 20) # <<>>

\* An argument-validation failure.
IsInvalidArgument(r) == "error" \in DOMAIN r

\* C9: createEntity with a type that is none of pet, property, vehicle and
\* person is rejected with an InvalidArgument failure and creates no row.
C9_InvalidEntityTypeRejected ==
    [][\A u \in Users, t \in EntityTypeArgs, n \in NameArgs, a \in AttributeArgs :
          (CreateEntity(u, t, n, a) /\ t \notin ValidEntityTypes) =>
              /\ entities' = entities
              /\ IsInvalidArgument(ret')]_vars

\* C10: every stored event has a type of the six-value enum and an importance
\* in [0, 1] (0..10 tenths); an addEvent with another type, or with an
\* importance out of range that is not clamped, is rejected with
\* InvalidArgument and stores nothing.
C10_EventArgumentsValidated ==
    [][\A u \in Users, t \in EventTypeArgs, d \in DescriptionArgs,
          ids \in IdArrays \cup {NullIds}, imp \in ImportanceArgs :
          AddEvent(u, t, d, ids, NullObject, NoTimestamp, imp) =>
              /\ \A i \in DOMAIN events' :
                     /\ events'[i].event_type \in ValidEventTypes
                     /\ events'[i].importance \in 0..10
              /\ t \notin ValidEventTypes =>
                     (events' = events /\ IsInvalidArgument(ret'))
              /\ imp \notin 0..10 =>
                     \/ (events' = events /\ IsInvalidArgument(ret'))
                     \/ events'[Len(events')].importance \in {0, 10}]_vars

\* The rows of a table that belong to user u.
OwnRows(table, u) == SelectSeq(table, LAMBDA r : r.user_id = u)

\* What the query methods of the instance of user u return over the tables
\* p (user_profile), e (entities) and v (events), the keyword searches being
\* made with the keywords kws.
Answers(u, p, e, v, kws) ==
    [queryProfile |->
         [keys \in {{}, {<<"a">>}} |-> QueryProfileIn(p, u, keys, NullName)],
     searchProfileByKeywords |-> SearchProfileIn(p, u, kws, NullName, "any", 20),
     listEntities |->
         [st \in {"active", "inactive", "all"} |-> ListEntitiesIn(e, u, NullName, st)],
     searchEntitiesByKeywords |->
         SearchEntitiesIn(e, u, kws, NullName, {"all"}, "any", 20),
     searchEvents |-> SearchEventsIn(v, u, NullText, NullName, NoRange, 20),
     searchEventsByKeywords |->
         SearchEventsByKeywordsIn(v, u, kws, NullName, NoRange, 20),
     queryEntityTimeline |->
         [id \in EntityIdArgs |-> QueryEntityTimelineIn(v, u, id, DefaultTimelineLimit)]]

\* The answers to the queries of user u are decided by the rows of u alone.
ReadsOwnRowsOnly ==
    \A u \in Users :
        Answers(u, profile, entities, events, << <<"a">>, <<"B">> >>)
            = Answers(u, OwnRows(profile, u), OwnRows(entities, u), OwnRows(events, u),
                      << <<"a">>, <<"B">> >>)

\* C8: what the queries of user u return is decided by the rows of u alone,
\* and a step of another user's instance (lastOp' names the caller) changes
\* no row of u, also when both users use the same key and the same ids; so
\* the answers to the queries of u are the same whatever the other user does.
C8_UserIsolation ==
    /\ []ReadsOwnRowsOnly
    /\ [][\A u \in Users :
             lastOp'.user # u =>
                 /\ OwnRows(profile', u) = OwnRows(profile, u)
                 /\ OwnRows(entities', u) = OwnRows(entities, u)
                 /\ OwnRows(events', u) = OwnRows(events, u)]_vars

\* Bob has just soft-deleted his attribute while alice holds a live attribute
\* of the same key and an entity of her own.
C8_Witness ==
    /\ lastOp.user = "bob"
    /\ lastOp.op = "deleteProfile"
    /\ ret.deleted = TRUE
    /\ QueryProfileIn(profile, "alice", {lastOp.key}, NullName) # <<>>
    /\ OwnRows(profile, "bob") # <<>>
    /\ ListEntitiesIn(entities, "alice", NullName, "all") # <<>>

\* The events of user u that searchEvents returns for the time range, by the
\* legacy path and by the keyword path (keyword "a", found in no event or in
\* every event of the model).
FoundByLegacy(u, timeRange) ==
    IdsOf(SearchEventsCall(u, NullText, NullKeywords, NullName, timeRange, 20))

FoundByKeywords(u, timeRange) ==
    IdsOf(SearchEventsCall(u, NullText, << <<"a">> >>, NullName, timeRange, 20))

\* C11: for every recognized time range, resolved to the instants start and
\* end, searchEvents returns, by the legacy path and by the keyword path, a
\* live event of the user exactly if start <= timestamp < end: the event
\* stamped start is returned and the event stamped end is not.
C11_HalfOpenTimeRange ==
    \A tr \in RecognizedTimeRanges, i \in DOMAIN events :
        (events[i].user_id = "alice" /\ events[i].deleted = 0) =>
            LET range == ParseTimeRange(tr)
                inside == /\ range.start <= events[i].timestamp
                          /\ events[i].timestamp < range.end
            IN  /\ events[i].id \in FoundByLegacy("alice", tr) <=> inside
                /\ events[i].id \in FoundByKeywords("alice", tr) <=> inside

\* The first instant of month m of year y, and of the month after it.
MonthStart(y, m) == DaysFromCivil(y, m, 1)

NextMonthStart(y, m) == IF m = 12 THEN DaysFromCivil(y + 1, 1, 1) ELSE DaysFromCivil(y, m + 1, 1)

\* The interval the table of recognized forms gives for a time range at the
\* clock reading clock, or UnsupportedFormat.
TableRange(timeRange, clock) ==
    IF timeRange = LastWeek THEN [start |-> clock - 7, end |-> clock]
    ELSE IF timeRange = LastMonth THEN [start |-> clock - 30, end |-> clock]
    ELSE IF timeRange = LastYear THEN [start |-> clock - 365, end |-> clock]
    ELSE IF /\ MatchesYearMonth(timeRange)
            /\ ToNumber(SubSeq(timeRange, 6, 7)) \in 1..12
    THEN [start |-> MonthStart(ToNumber(SubSeq(timeRange, 1, 4)),
                               ToNumber(SubSeq(timeRange, 6, 7))),
          end |-> NextMonthStart(ToNumber(SubSeq(timeRange, 1, 4)),
                                 ToNumber(SubSeq(timeRange, 6, 7)))]
    ELSE IF MatchesYear(timeRange)
    THEN [start |-> DaysFromCivil(ToNumber(timeRange), 1, 1),
          end |-> DaysFromCivil(ToNumber(timeRange) + 1, 1, 1)]
    ELSE UnsupportedFormat

\* C20: _parseTimeRange returns what the table of recognized forms gives:
\* now minus 7, 30 or 365 days to now for last_week, last_month and
\* last_year, the first instant of the month to the first instant of the
\* next month for YYYY-MM, Jan 1 to Jan 1 of the next year for YYYY, and an
\* error for every other text.
C20_ParseTimeRangeTable ==
    [][\A u \in Users, tr \in TimeRangeArgs :
          CallParseTimeRange(u, tr) => ret' = TableRange(tr, now)]_vars

\* Every record of the sequence a is a record of the sequence b.
EachIn(a, b) == \A i \in DOMAIN a : \E j \in DOMAIN b : a[i] = b[j]

\* Keyword lists for the comparison of the match modes: those of the model,
\* the empty list and a list of one blank keyword.
KeywordListsWithEmpty == KeywordLists \cup {<<>>, << <<" ">> >>}

\* C12: for the same table, keyword list, category or type filter and
\* limit, every record searchProfileByKeywords and searchEntitiesByKeywords
\* return with matchMode 'all' is also returned with matchMode 'any', the
\* empty keyword list, blank keywords and every limit included.
C12_AllSubsetOfAny ==
    \A u \in Users, kws \in KeywordListsWithEmpty, n \in Limits :
        /\ \A c \in Categories :
               EachIn(SearchProfileByKeywords(u, kws, c, "all", n),
                      SearchProfileByKeywords(u, kws, c, "any", n))
        /\ \A t \in {NullName, "pet"} :
               EachIn(SearchEntitiesByKeywords(u, kws, t, {"all"}, "all", n),
                      SearchEntitiesByKeywords(u, kws, t, {"all"}, "any", n))

\* The row of (u, k) in the table p.
StoredAttribute(p, u, k) ==
    p[CHOOSE i \in DOMAIN p : p[i].user_id = u /\ p[i].key = k]

\* C13: updateProfile(k, v, c) stores category c for a new key; for a key
\* that has a row it stores c when c is not null and leaves the stored
\* category as it was when c is null, whether the row is soft-deleted or
\* not; the category of no other row changes.  So after any sequence of
\* updates the stored category is the last non-null one supplied, or null.
C13_LastNonNullCategoryWins ==
    [][LET u == lastOp'.user
           k == lastOp'.key
           c == lastOp'.category
       IN  (lastOp'.op = "updateProfile" /\ UpdateProfile(u, k, lastOp'.value, c)) =>
               /\ StoredAttribute(profile', u, k).category =
                      IF ProfileRowsOf(u, k) = {} \/ c # NullName THEN c
                      ELSE StoredAttribute(profile, u, k).category
               /\ \A i \in DOMAIN profile :
                      i \notin ProfileRowsOf(u, k) =>
                          profile'[i].category = profile[i].category]_vars

\* An update without a category has just left a non-null category stored
\* by an earlier update in place, next to another attribute.
C13_Witness ==
    /\ lastOp.op = "updateProfile"
    /\ lastOp.category = NullName
    /\ ret.had_previous_value = TRUE
    /\ StoredAttribute(profile, lastOp.user, lastOp.key).category = "habits"
    /\ Len(profile) = 2

\* C14: deleteProfile(k) returns deleted = true and changes = 1 exactly if a
\* row of (user, k) with deleted = 0 existed right before the call, and
\* deleted = false and changes = 0 otherwise; a deleteProfile(k) directly
\* after a deleteProfile(k) returns deleted = false.
C14_DeleteProfileResult ==
    [][\A u \in Users, k \in Keys :
          DeleteProfile(u, k) =>
              LET live == \E i \in DOMAIN profile :
                              /\ profile[i].user_id = u
                              /\ profile[i].key = k
                              /\ profile[i].deleted = 0
              IN  /\ ret'.deleted = live
                  /\ ret'.changes = IF live THEN 1 ELSE 0
                  /\ (lastOp.op = "deleteProfile" /\ lastOp.user = u /\ lastOp.key = k)
                         => ret'.deleted = FALSE]_vars

\* A deleteProfile of a key whose row was already soft-deleted has returned
\* deleted = false.
C14_Witness ==
    /\ lastOp.op = "deleteProfile"
    /\ ret.deleted = FALSE
    /\ ret.changes = 0
    /\ \E i \in ProfileRowsOf(lastOp.user, lastOp.key) : profile[i].deleted = 1

\* No row of table has user u and the id.
NoRowOf(table, u, id) ==
    \A i \in DOMAIN table : ~(table[i].user_id = u /\ table[i].id = id)

\* C15: deleteEntity, deleteEvent and updateEntity with a field supplied,
\* called with an id that has no row of the user (no row at all, or a row of
\* another user), return changes = 0 with deleted or updated false and no
\* error, and leave every stored entity and event as it was.
C15_MissingIdIsNoOp ==
    [][LET u == lastOp'.user
           id == lastOp'.id
       IN  /\ (/\ lastOp'.op = "deleteEntity"
               /\ DeleteEntity(u, id)
               /\ NoRowOf(entities, u, id)) =>
                  /\ ret' = [deleted |-> FALSE, changes |-> 0]
                  /\ entities' = entities
                  /\ events' = events
           /\ (/\ lastOp'.op = "deleteEvent"
               /\ DeleteEvent(u, id)
               /\ NoRowOf(events, u, id)) =>
                  /\ ret' = [deleted |-> FALSE, changes |-> 0]
                  /\ entities' = entities
                  /\ events' = events
           /\ (/\ lastOp'.op = "updateEntity"
               /\ UpdateEntity(u, id, lastOp'.name, lastOp'.attributes, lastOp'.status)
               /\ ~(/\ lastOp'.name = NullText
                    /\ lastOp'.attributes = NullObject
                    /\ lastOp'.status = NullName)
               /\ NoRowOf(entities, u, id)) =>
                  /\ ret' = [updated |-> FALSE, changes |-> 0]
                  /\ entities' = entities
                  /\ events' = events]_vars

\* Bob has just called deleteEntity or updateEntity with the id of a live
\* entity of alice and got changes = 0.
C15_Witness ==
    /\ lastOp.user = "bob"
    /\ lastOp.op \in {"deleteEntity", "updateEntity"}
    /\ ret.changes = 0
    /\ \E i \in DOMAIN entities :
           /\ entities[i].id = lastOp.id
           /\ entities[i].user_id = "alice"
           /\ entities[i].deleted = 0
           /\ entities[i].status = "active"

\* C16: whatever the users do to the store, deletes included, createEntity
\* returns the id of the row it wrote, greater than the id of every entity
\* written before, and no row is removed or renumbered, so no id is returned
\* twice; the same for addEvent and the events.
C16_IdsIncrease ==
    [][/\ Len(entities') >= Len(entities)
       /\ \A i \in DOMAIN entities : entities'[i].id = entities[i].id
       /\ Len(entities') > Len(entities) =>
              /\ ret'.id = entities'[Len(entities')].id
              /\ \A i \in DOMAIN entities : entities[i].id < ret'.id
       /\ Len(events') >= Len(events)
       /\ \A i \in DOMAIN events : events'[i].id = events[i].id
       /\ Len(events') > Len(events) =>
              /\ ret'.id = events'[Len(events')].id
              /\ \A i \in DOMAIN events : events[i].id < ret'.id]_vars

\* createEntity has returned id 2 after the entity with id 1, of the other
\* user, was deleted.
C16_Witness ==
    /\ lastOp.op = "createEntity"
    /\ ret.id = 2
    /\ entities[1].deleted = 1
    /\ entities[1].user_id # lastOp.user

\* C17: updateEntity(id) with name, attributes and status all null returns
\* updated = false and writes nothing: every entity, updated_at included,
\* the other tables and the saved file stay as they were.
C17_EmptyPatchChangesNothing ==
    [][(/\ lastOp'.op = "updateEntity"
        /\ UpdateEntity(lastOp'.user, lastOp'.id, NullText, NullObject, NullName)) =>
           /\ ret'.updated = FALSE
           /\ entities' = entities
           /\ profile' = profile
           /\ events' = events
           /\ file' = file]_vars

\* An updateEntity without fields has returned updated = false for an
\* existing entity last written at an earlier reading of the clock.
C17_Witness ==
    /\ lastOp.op = "updateEntity"
    /\ lastOp.name = NullText /\ lastOp.attributes = NullObject /\ lastOp.status = NullName
    /\ ret.updated = FALSE
    /\ \E i \in DOMAIN entities :
           /\ entities[i].id = lastOp.id
           /\ entities[i].user_id = lastOp.user
           /\ entities[i].updated_at < now

\* C18: updateEntity(id, name, attributes, status) with at least one of the
\* three supplied sets, in the entity of the user with that id, each supplied
\* field to the supplied value (attributes as JSON text) and updated_at to
\* the current time, and leaves its other fields, its type, its deleted
\* flag, its id, owner and creation time, and every other entity unchanged.
C18_PatchSetsSuppliedFieldsOnly ==
    [][LET u == lastOp'.user
           id == lastOp'.id
           n == lastOp'.name
           a == lastOp'.attributes
           st == lastOp'.status
       IN  (/\ lastOp'.op = "updateEntity"
            /\ UpdateEntity(u, id, n, a, st)
            /\ ~(n = NullText /\ a = NullObject /\ st = NullName)) =>
               /\ Len(entities') = Len(entities)
               /\ \A i \in DOMAIN entities :
                      IF entities[i].user_id = u /\ entities[i].id = id
                      THEN /\ entities'[i].name =
                                  IF n # NullText THEN n ELSE entities[i].name
                           /\ entities'[i].attributes =
                                  IF a # NullObject THEN JSONStringifyObject(a)
                                  ELSE entities[i].attributes
                           /\ entities'[i].status =
                                  IF st # NullName THEN st ELSE entities[i].status
                           /\ entities'[i].updated_at = now
                           /\ entities'[i].entity_type = entities[i].entity_type
                           /\ entities'[i].deleted = entities[i].deleted
                           /\ entities'[i].id = entities[i].id
                           /\ entities'[i].user_id = entities[i].user_id
                           /\ entities'[i].created_at = entities[i].created_at
                      ELSE entities'[i] = entities[i]]_vars

\* An updateEntity with only a name has just renamed a soft-deleted entity
\* created earlier, next to an entity that was left as created.
C18_Witness ==
    /\ lastOp.op = "updateEntity"
    /\ lastOp.name = <<"a", "b">>
    /\ lastOp.attributes = NullObject
    /\ lastOp.status = NullName
    /\ ret.updated = TRUE
    /\ Len(entities) = 2
    /\ \E i, j \in DOMAIN entities :
           /\ entities[i].id = lastOp.id
           /\ entities[i].name = <<"a", "b">>
           /\ entities[i].deleted = 1
           /\ entities[i].created_at < now
           /\ entities[i].updated_at = now
           /\ j # i
           /\ entities[j].name = NullText
           /\ entities[j].updated_at = entities[j].created_at
           /\ entities[j].updated_at < now

\* The entities of user u with deleted = 0, of the type when one is given,
\* and of the status unless it is 'all'.
ExpectedListing(u, entityType, status) ==
    {i \in DOMAIN entities :
        /\ entities[i].user_id = u
        /\ entities[i].deleted = 0
        /\ (entityType # NullName => entities[i].entity_type = entityType)
        /\ (status # "all" => entities[i].status = status)}

VisibleEventIds(v, u) ==
    IdsOf(SearchEventsIn(v, u, NullText, NullName, NoRange, 20))
        \cup IdsOf(SearchEventsIn(v, u, <<"a">>, "illness", NoRange, 20))
        \cup IdsOf(SearchEventsByKeywordsIn(v, u, << <<"a">> >>, NullName, NoRange, 20))
        \cup UNION {IdsOf(QueryEntityTimelineIn(v, u, id, DefaultTimelineLimit)) :
                      id \in EntityIdArgs}

\* C21: in every state no event query of any user returns an event whose row
\* is soft-deleted, and every step leaves a soft-deleted event row in the
\* table, soft-deleted and with its id: neither the step that deletes it nor
\* any later one makes it visible.
C21_DeletedEventStaysHidden ==
    /\ [](LET visible == UNION {VisibleEventIds(events, u) : u \in Users}
          IN  \A i \in DOMAIN events :
                  events[i].deleted = 1 => events[i].id \notin visible)
    /\ [][\A i \in DOMAIN events :
              events[i].deleted = 1 =>
                  /\ i \in DOMAIN events'
                  /\ events'[i].id = events[i].id
                  /\ events'[i].deleted = 1]_vars

\* An event related to entity 1 was deleted by its owner, and a later addEvent
\* has stored another event.
C21_Witness ==
    /\ lastOp.op = "addEvent"
    /\ \E i \in DOMAIN events :
           /\ events[i].deleted = 1
           /\ Includes(events[i].related_entity_ids, <<"[", "1", "]">>)
           /\ ret.id > events[i].id

\* The <<id, attributes>> pairs the entity queries of user u return over the
\* table e: listEntities for 'active' and 'all', and searchEntitiesByKeywords.
EntityViews(e, u) ==
    LET answers == {ListEntitiesIn(e, u, NullName, "active"),
                    ListEntitiesIn(e, u, NullName, "all"),
                    SearchEntitiesIn(e, u, << <<"a">>, <<"b">> >>, NullName, {"all"}, "any", 20)}
    IN  UNION {{<<rows[i].id, rows[i].attributes>> : i \in DOMAIN rows} : rows \in answers}

\* The <<id, related_entity_ids, metadata>> triples the event queries of user
\* u return over the table v: searchEvents without and with keywords, and
\* queryEntityTimeline.
EventViews(v, u) ==
    LET answers == {SearchEventsIn(v, u, NullText, NullName, NoRange, 20),
                    SearchEventsByKeywordsIn(v, u, << <<"a">> >>, NullName, NoRange, 20)}
                     \cup {QueryEntityTimelineIn(v, u, id, DefaultTimelineLimit) :
                              id \in EntityIdArgs}
    IN  UNION {{<<rows[i].id, rows[i].related_entity_ids, rows[i].metadata>> :
                   i \in DOMAIN rows} : rows \in answers}

\* C22: right after createEntity, an updateEntity with attributes, or addEvent,
\* every query that returns the record returns the attributes (the related
\* ids and the metadata) the call was given; and a step that is not an
\* updateEntity with attributes for that entity leaves what the queries
\* return for a record as it was.  So every later query returns what was
\* written until an update replaces it.
C22_JsonRoundTrip ==
    [][\A u \in Users :
          LET entitiesBefore == EntityViews(entities, u)
              entitiesAfter == EntityViews(entities', u)
              eventsBefore == EventViews(events, u)
              eventsAfter == EventViews(events', u)
              replaced(id) == /\ lastOp'.op = "updateEntity"
                              /\ lastOp'.id = id
                              /\ lastOp'.attributes # NullObject
          IN  /\ (lastOp'.op = "createEntity" /\ lastOp'.user = u) =>
                     \A view \in entitiesAfter :
                         view[1] = ret'.id => view[2] = lastOp'.attributes
              /\ (lastOp'.op = "updateEntity" /\ lastOp'.user = u
                     /\ lastOp'.attributes # NullObject) =>
                     \A view \in entitiesAfter :
                         view[1] = lastOp'.id => view[2] = lastOp'.attributes
              /\ (lastOp'.op = "addEvent" /\ lastOp'.user = u) =>
                     \A view \in eventsAfter :
                         view[1] = ret'.id =>
                             /\ view[2] = lastOp'.related_entity_ids
                             /\ view[3] = lastOp'.metadata
              /\ \A before \in entitiesBefore, after \in entitiesAfter :
                     (after[1] = before[1] /\ ~replaced(before[1])) => after[2] = before[2]
              /\ \A before \in eventsBefore, after \in eventsAfter :
                     after[1] = before[1] =>
                         (after[2] = before[2] /\ after[3] = before[3])]_vars

\* After a later addEvent, the listing still returns an entity with the two
\* members an updateEntity gave it and one with the member it was created
\* with, and the event queries return an event with its two related ids and
\* its metadata object.
C22_Witness ==
    /\ lastOp.op = "addEvent"
    /\ <<1, TwoMembers>> \in EntityViews(entities, "alice")
    /\ <<2, OneMember>> \in EntityViews(entities, "alice")
    /\ <<1, <<1, 12>>, OneMember>> \in EventViews(events, "alice")
    /\ ret.id = 1

\* text with the text t inserted after its first p characters.
InsertAt(text, p, t) == SubSeq(text, 1, p) \o t \o SubSeq(text, p + 1, Len(text))

RECURSIVE SubstringsFrom(_, _, _)
\* The number of occurrences of kw as a substring of s from offset i on, not
\* overlapping, leftmost first.
SubstringsFrom(s, kw, i) ==
    IF i + Len(kw) > Len(s) THEN 0
    ELSE IF \A j \in 1..Len(kw) : s[i + j] = kw[j]
         THEN 1 + SubstringsFrom(s, kw, i + Len(kw))
         ELSE SubstringsFrom(s, kw, i + 1)

\* The number of case-insensitive occurrences of the keyword in a field.
SubstringCount(text, keyword) ==
    SubstringsFrom(ToLowerCase(text), Trim(ToLowerCase(keyword)), 0)

\* The field text2 differs from text only by one more occurrence of keyword
\* j of the list: that keyword occurs once more, every other as often as before.
OneMoreOccurrence(text, text2, keywords, j) ==
    \A m \in DOMAIN keywords :
        SubstringCount(text2, keywords[m]) =
            SubstringCount(text, keywords[m])
                + (IF Trim(ToLowerCase(keywords[m])) = Trim(ToLowerCase(keywords[j]))
                   THEN 1 ELSE 0)

\* Keyword lists without characters that are special in a regular expression.
PlainKeywordLists ==
    {<< <<"a">> >>, << <<"B">>, <<"a">> >>, << <<"c">>, <<"a", " ", "b">> >>}

\* An object with the text t inserted after the first p characters of the
\* value of member m.
InsertInMember(obj, m, p, t) ==
    [n \in DOMAIN obj |-> IF n = m THEN <<obj[n][1], InsertAt(obj[n][2], p, t)>> ELSE obj[n]]

\* The members of an object; a null object has none.
MembersOf(obj) == IF obj = NullObject THEN {} ELSE DOMAIN obj

\* C23: for a record of the store, a keyword list and a keyword of the list
\* that matches the record, a record that differs only by one more occurrence
\* of that keyword in one searched field (the key or the value of an
\* attribute, the name or an attribute value of an entity, the description or
\* a metadata value of an event) has a relevance score at least as large.
C23_ScoreMonotonic ==
    \A keywords \in PlainKeywordLists : \A j \in DOMAIN keywords :
        LET kw == Trim(ToLowerCase(keywords[j]))
        IN  /\ \A i \in DOMAIN profile : \A f \in {"key", "value"} :
                   \A p \in 0..Len(profile[i][f]) :
                       LET r2 == [profile[i] EXCEPT ![f] = InsertAt(@, p, kw)]
                       IN  (/\ ProfileKeywordMatches(profile[i], keywords[j])
                            /\ OneMoreOccurrence(profile[i][f], r2[f], keywords, j)) =>
                               ProfileTotalScore(r2, keywords)
                                   >= ProfileTotalScore(profile[i], keywords)
            /\ LET listed == ListEntities("alice", NullName, "active")
               IN  \A i \in DOMAIN listed :
                       LET score(entity) == EntityTotalScore(entity, keywords, {"all"})
                           matched == EntityKeywordScore(listed[i], keywords[j], {"all"}) > 0
                       IN  /\ listed[i].name # NullText =>
                                \A p \in 0..Len(listed[i].name) :
                                    LET r2 == [listed[i] EXCEPT !.name = InsertAt(@, p, kw)]
                                    IN  (/\ matched
                                         /\ OneMoreOccurrence(listed[i].name, r2.name,
                                                              keywords, j)) =>
                                            score(r2) >= score(listed[i])
                           /\ \A m \in MembersOf(listed[i].attributes) :
                                \A p \in 0..Len(listed[i].attributes[m][2]) :
                                    LET r2 == [listed[i] EXCEPT !.attributes =
                                                  InsertInMember(@, m, p, kw)]
                                    IN  (/\ matched
                                         /\ OneMoreOccurrence(
                                                AttributesJson(listed[i].attributes),
                                                AttributesJson(r2.attributes), keywords, j)) =>
                                            score(r2) >= score(listed[i])
            /\ LET found == SearchEvents("alice", NullText, NullName, NoRange, 20)
               IN  \A i \in DOMAIN found :
                       LET score(event) ==
                               SumSeq([n \in DOMAIN keywords |->
                                          EventKeywordScore(event, keywords[n])])
                           matched == EventKeywordScore(found[i], keywords[j]) > 0
                       IN  /\ \A p \in 0..Len(found[i].description) :
                                    LET r2 == [found[i] EXCEPT !.description =
                                                  InsertAt(@, p, kw)]
                                    IN  (/\ matched
                                         /\ OneMoreOccurrence(found[i].description,
                                                              r2.description, keywords, j)) =>
                                            score(r2) >= score(found[i])
                           /\ \A m \in MembersOf(found[i].metadata) :
                                \A p \in 0..Len(found[i].metadata[m][2]) :
                                    LET r2 == [found[i] EXCEPT !.metadata =
                                                  InsertInMember(@, m, p, kw)]
                                    IN  (/\ matched
                                         /\ OneMoreOccurrence(
                                                MetadataJson(found[i].metadata),
                                                MetadataJson(r2.metadata), keywords, j)) =>
                                            score(r2) >= score(found[i])

\* C24: the relevance_score of every attribute searchAttributesByKeywords
\* returns is the sum, over the keywords that matched it, of twice the
\* occurrences of the keyword in the key plus the occurrences in the value,
\* counted case-insensitively in each field separately.
C24_ProfileScoreFormula ==
    \A keywords \in PlainKeywordLists, matchMode \in MatchModes :
        LET results == SearchProfileByKeywords("alice", keywords, NullName, matchMode, 20)
        IN  \A i \in DOMAIN results :
                LET matched == results[i].matched_keywords
                IN  results[i].relevance_score =
                        SumSeq([n \in DOMAIN matched |->
                                   2 * SubstringCount(results[i].key, matched[n])
                                     + SubstringCount(results[i].value, matched[n])])

\* The `fields` arguments of searchEntitiesByKeywords.
SearchFieldArgs == {{"all"}, {"name"}, {"attributes"}, {"name", "attributes"}}

\* 3 x occurrences in the name, if the name is searched, plus 1 x occurrences
\* in the serialized attributes, if the attributes are searched.
WeightedOccurrences(entity, keyword, searchFields) ==
    (IF ("all" \in searchFields \/ "name" \in searchFields) /\ entity.name # NullText
     THEN 3 * SubstringCount(entity.name, keyword) ELSE 0)
    + (IF ("all" \in searchFields \/ "attributes" \in searchFields)
          /\ entity.attributes # NullObject
       THEN SubstringCount(JSONStringifyObject(entity.attributes), keyword) ELSE 0)

\* C25: searchEntitiesByKeywords (match mode 'any') returns exactly the
\* active entities in which some keyword occurs in a searched field, and the
\* relevance_score of each is the sum over its matched keywords of 3 x the
\* occurrences in the name plus 1 x the occurrences in the serialized
\* attributes, a field that `fields` excludes counting for nothing.
C25_EntityScoreFormula ==
    \A keywords \in KeywordLists \cup PlainKeywordLists, searchFields \in SearchFieldArgs :
        LET results == SearchEntitiesByKeywords("alice", keywords, NullName, searchFields,
                                                "any", 20)
            listed == ListEntities("alice", NullName, "active")
        IN  /\ \A i \in DOMAIN results :
                   LET matched == results[i].matched_keywords
                   IN  results[i].relevance_score =
                           SumSeq([n \in DOMAIN matched |->
                                      WeightedOccurrences(results[i], matched[n], searchFields)])
            /\ IdsOf(results) =
                   {listed[i].id : i \in
                       {i \in DOMAIN listed :
                           \E n \in DOMAIN keywords :
                               WeightedOccurrences(listed[i], keywords[n], searchFields) > 0}}

\* The records of a result as tag and score; tags name the records of a
\* listing (the key of an attribute, the id of an entity or event).
Ranking(tags, results) ==
    [i \in DOMAIN results |-> [tag |-> tags[i], score |-> results[i].relevance_score]]

\* The position of a tag in a listing.
PositionOf(listing, tag) == CHOOSE n \in DOMAIN listing : listing[n] = tag

\* result holds at most limit records and is the start of full, the result
\* for a limit no smaller than the listing; full holds records of the listing,
\* each once, in non-increasing score order, records of equal score in the
\* order of the listing.
RankedPrefix(result, full, listing, limit) ==
    /\ Len(result) <= limit
    /\ Len(result) = (IF limit < Len(full) THEN limit ELSE Len(full))
    /\ \A i \in DOMAIN result : result[i] = full[i]
    /\ \A i \in DOMAIN full : \E n \in DOMAIN listing : listing[n] = full[i].tag
    /\ \A i, j \in DOMAIN full :
           i < j =>
               \/ full[i].score > full[j].score
               \/ /\ full[i].score = full[j].score
                  /\ PositionOf(listing, full[i].tag) < PositionOf(listing, full[j].tag)

\* A limit below the number of records a table can hold, and one above it.
SmallLimit == 1
LargeLimit == 20

\* Keyword lists of one and of two keywords, with a blank and a capital.
RankKeywordLists == {<< <<"a">> >>, << <<"B">>, <<" ", "a">> >>}

\* The rankings of the three keyword searches of alice for a limit.
ProfileRanking(keywords, matchMode, limit) ==
    LET results == SearchProfileByKeywords("alice", keywords, NullName, matchMode, limit)
    IN  Ranking([i \in DOMAIN results |-> results[i].key], results)

EntityRanking(keywords, matchMode, limit) ==
    LET results == SearchEntitiesByKeywords("alice", keywords, NullName, {"all"},
                                            matchMode, limit)
    IN  Ranking([i \in DOMAIN results |-> results[i].id], results)

EventRanking(keywords, limit) ==
    LET results == SearchEventsCall("alice", NullText, keywords, NullName, NullText, limit)
    IN  Ranking([i \in DOMAIN results |-> results[i].id], results)

\* The listings the three searches rank.
ProfileListing ==
    LET rows == QueryProfile("alice", {}, NullName) IN [i \in DOMAIN rows |-> rows[i].key]

EntityListing ==
    LET rows == ListEntities("alice", NullName, "active") IN [i \in DOMAIN rows |-> rows[i].id]

EventListing ==
    LET rows == SearchEvents("alice", NullText, NullName, NoRange, 20)
    IN  [i \in DOMAIN rows |-> rows[i].id]

\* C26: every keyword search returns at most `limit` records, the start of the
\* list of all matching records in non-increasing relevance_score order with
\* records of equal score in the order of the underlying listing.
C26_RankedAndTruncated ==
    \A keywords \in RankKeywordLists :
        /\ \A matchMode \in MatchModes :
               LET allAttributes == ProfileRanking(keywords, matchMode, LargeLimit)
                   allEntities == EntityRanking(keywords, matchMode, LargeLimit)
               IN  /\ RankedPrefix(allAttributes, allAttributes, ProfileListing, LargeLimit)
                   /\ RankedPrefix(ProfileRanking(keywords, matchMode, SmallLimit),
                                   allAttributes, ProfileListing, SmallLimit)
                   /\ RankedPrefix(allEntities, allEntities, EntityListing, LargeLimit)
                   /\ RankedPrefix(EntityRanking(keywords, matchMode, SmallLimit),
                                   allEntities, EntityListing, SmallLimit)
        /\ LET allEvents == EventRanking(keywords, LargeLimit)
           IN  /\ RankedPrefix(allEvents, allEvents, EventListing, LargeLimit)
               /\ RankedPrefix(EventRanking(keywords, SmallLimit), allEvents, EventListing,
                               SmallLimit)

\* The attribute search for 'a' ranks the attribute written second before
\* the one written first, limit 1 leaves out the latter, and the event search
\* has found an event.
C26_Witness ==
    /\ Len(ProfileRanking(<< <<"a">> >>, "any", 20)) = 2
    /\ ProfileRanking(<< <<"a">> >>, "any", 20)[1].tag = ProfileListing[2]
    /\ ProfileRanking(<< <<"a">> >>, "any", 20)[1].score
           > ProfileRanking(<< <<"a">> >>, "any", 20)[2].score
    /\ Len(ProfileRanking(<< <<"a">> >>, "any", 1)) = 1
    /\ Len(EventRanking(<< <<"a">> >>, 20)) = 1

\* C27: the file image equals the in-memory database after every operation,
\* so a store that loads the file holds the same tables with the same rows
\* and answers the queries of both users as the running store does.
C27_FileEqualsMemory ==
    LET reopened == Load(file)
    IN  /\ file = Export(profile, entities, events)
        /\ reopened.schema = schema
        /\ reopened.user_profile = profile
        /\ reopened.entities = entities
        /\ reopened.events = events
        /\ \A u \in Users :
               /\ QueryProfileIn(reopened.user_profile, u, {}, NullName)
                      = QueryProfile(u, {}, NullName)
               /\ ListEntitiesIn(reopened.entities, u, NullName, "all")
                      = ListEntities(u, NullName, "all")
               /\ SearchEventsIn(reopened.events, u, NullText, NullName, NoRange, 20)
                      = SearchEvents(u, NullText, NullName, NoRange, 20)
               /\ QueryEntityTimelineIn(reopened.events, u, 1, DefaultTimelineLimit)
                      = QueryEntityTimeline(u, 1, DefaultTimelineLimit)

\* A deleteEvent has completed on a store that holds an attribute, an entity
\* and the deleted event, and the file holds all three.
C27_Witness ==
    /\ lastOp.op = "deleteEvent"
    /\ ret.deleted
    /\ Len(file.user_profile) = 1
    /\ Len(file.entities) = 1
    /\ Len(file.events) = 1
    /\ file.events[1].deleted = 1

\* C28: once a store has finished opening, each of the four tables exists
\* and has the column deleted, whatever file was or was not at dbPath.
C28_TablesAfterOpening ==
    schema # NoDatabase => \A t \in TableNames : schema[t] = "with_deleted"

\* The mutating calls invoked before call i.
MutationsBefore(i) == {j \in 1..(i - 1) : calls[j].op = "updateProfile"}

\* C29: no call runs before the database is open, and every call that is not
\* awaited acts on the database as changed by exactly the mutating calls
\* invoked before it; so a search never observes a mutation invoked after
\* it.
C29_InvocationOrder ==
    \A i \in DOMAIN calls :
        /\ calls[i].done => schema # NoDatabase
        /\ calls[i].done => calls[i].saw = MutationsBefore(i)

\* C30: when the write of the file has failed in a mutating operation, the
\* in-memory database is the one last written to the file, so that no later
\* read shows the mutation.
C30_FailedWriteLeavesNoTrace ==
    ret = WriteFailed =>
        /\ Export(profile, entities, events) = file
        /\ QueryProfile("alice", {}, NullName) = QueryProfileIn(file.user_profile, "alice", {}, NullName)
        /\ ListEntities("alice", NullName, "all")
               = ListEntitiesIn(file.entities, "alice", NullName, "all")

====
